---- MODULE Spec2Model ----
(***************************************************************************)
(* NexusPulse vitality engine (src/lib/vitality-engine.ts).                *)
(*                                                                         *)
(* computeVitality works on JavaScript numbers, which are IEEE-754 binary64 *)
(* values.  The weights 0.3 and 0.2 are not representable, so sums such as *)
(* 2*0.3 - 3*0.2 are not the real-number results; thresholds, clamping and *)
(* Math.round then act on the rounded values.  The model therefore carries *)
(* numbers as binary64 values and rounds every operation to nearest, ties  *)
(* to even, as the language does.                                          *)
(*                                                                         *)
(* A number is a record [k, s, m, e]: k is "fin", "inf" or "nan"; a finite *)
(* number is (-1)^s * m * 2^e, m being a natural number kept as a sequence *)
(* of limbs (least significant first) that is odd or zero.  Magnitudes     *)
(* stay far from the subnormal range for count arguments, which is not     *)
(* modelled; overflow gives Infinity.                                      *)
(***************************************************************************)
EXTENDS Integers, Sequences, FiniteSets, TLC

----------------------------------------------------------------------------
(* Natural numbers of arbitrary size, as limb sequences in base            *)
(* 2^LimbBits; a product of two limbs plus a carry stays below 2^31.       *)

LimbBits == 14
Base == 2^LimbBits

Pow2(n) == 2^n

RECURSIVE BNorm(_)
BNorm(a) ==
    IF a = <<>> THEN a
    ELSE IF a[Len(a)] = 0 THEN BNorm(SubSeq(a, 1, Len(a) - 1))
    ELSE a

RECURSIVE BFromNat(_)
BFromNat(n) ==
    IF n = 0 THEN <<>> ELSE <<n % Base>> \o BFromNat(n \div Base)

RECURSIVE BToNat(_)
BToNat(a) ==
    IF a = <<>> THEN 0 ELSE Head(a) + Base * BToNat(Tail(a))

BRest(a) == IF a = <<>> THEN a ELSE Tail(a)
BLow(a) == IF a = <<>> THEN 0 ELSE Head(a)

RECURSIVE BAddC(_, _, _)
BAddC(a, b, c) ==
    IF a = <<>> /\ b = <<>> THEN (IF c = 0 THEN <<>> ELSE <<c>>)
    ELSE LET x == BLow(a) + BLow(b) + c
         IN  <<x % Base>> \o BAddC(BRest(a), BRest(b), x \div Base)

BAdd(a, b) == BAddC(a, b, 0)

\* a - b for a >= b
RECURSIVE BSubC(_, _, _)
BSubC(a, b, c) ==
    IF a = <<>> THEN <<>>
    ELSE LET x == Head(a) - BLow(b) - c
         IN  <<x % Base>> \o BSubC(Tail(a), BRest(b), IF x < 0 THEN 1 ELSE 0)

BSub(a, b) == BNorm(BSubC(a, b, 0))

\* -1, 0, 1 as a < b, a = b, a > b (both normalised)
RECURSIVE BCmpFrom(_, _, _)
BCmpFrom(a, b, i) ==
    IF i = 0 THEN 0
    ELSE IF a[i] < b[i] THEN -1
    ELSE IF a[i] > b[i] THEN 1
    ELSE BCmpFrom(a, b, i - 1)

BCmp(a, b) ==
    IF Len(a) < Len(b) THEN -1
    ELSE IF Len(a) > Len(b) THEN 1
    ELSE BCmpFrom(a, b, Len(a))

\* a * k + c for one limb k
RECURSIVE BMulSmall(_, _, _)
BMulSmall(a, k, c) ==
    IF a = <<>> THEN (IF c = 0 THEN <<>> ELSE <<c>>)
    ELSE LET x == Head(a) * k + c
         IN  <<x % Base>> \o BMulSmall(Tail(a), k, x \div Base)

RECURSIVE BMulRec(_, _)
BMulRec(a, b) ==
    IF b = <<>> THEN <<>>
    ELSE BAdd(BMulSmall(a, Head(b), 0), <<0>> \o BMulRec(a, Tail(b)))

BMul(a, b) == BNorm(BMulRec(a, b))

\* quotient and remainder of a by one nonzero limb d
RECURSIVE BDivSmall(_, _)
BDivSmall(a, d) ==
    IF a = <<>> THEN [q |-> <<>>, r |-> 0]
    ELSE LET hi == BDivSmall(Tail(a), d)
             cur == hi.r * Base + Head(a)
         IN  [q |-> <<cur \div d>> \o hi.q, r |-> cur % d]

Zeros(n) == [i \in 1..n |-> 0]

BShl(a, n) ==
    IF a = <<>> THEN a
    ELSE Zeros(n \div LimbBits) \o BMulSmall(a, Pow2(n % LimbBits), 0)

BShr(a, n) ==
    IF n \div LimbBits >= Len(a) THEN <<>>
    ELSE BNorm(BDivSmall(SubSeq(a, n \div LimbBits + 1, Len(a)),
                         Pow2(n % LimbBits)).q)

RECURSIVE LimbLen(_)
LimbLen(x) == IF x = 0 THEN 0 ELSE 1 + LimbLen(x \div 2)

BitLen(a) ==
    IF a = <<>> THEN 0 ELSE (Len(a) - 1) * LimbBits + LimbLen(a[Len(a)])

\* bit i (0 is the least significant) of a
BBit(a, i) ==
    IF i \div LimbBits >= Len(a) THEN 0
    ELSE (a[i \div LimbBits + 1] \div Pow2(i % LimbBits)) % 2

\* whether any of the n low bits of a is set
BAnyLow(a, n) ==
    \/ \E j \in 1..(n \div LimbBits) : j <= Len(a) /\ a[j] # 0
    \/ /\ n \div LimbBits < Len(a)
       /\ a[n \div LimbBits + 1] % Pow2(n % LimbBits) # 0

RECURSIVE LimbTz(_)
LimbTz(x) == IF x % 2 = 1 THEN 0 ELSE 1 + LimbTz(x \div 2)

\* number of trailing zero bits of a nonzero a
RECURSIVE BTz(_)
BTz(a) == IF Head(a) = 0 THEN LimbBits + BTz(Tail(a)) ELSE LimbTz(Head(a))

\* the largest d below 2^(bit+1) + acc, built from acc bit by bit, with
\* d * b <= cur
RECURSIVE QuotLimb(_, _, _, _)
QuotLimb(cur, b, bit, acc) ==
    IF bit < 0 THEN acc
    ELSE IF BCmp(BMulSmall(b, acc + Pow2(bit), 0), cur) <= 0
         THEN QuotLimb(cur, b, bit - 1, acc + Pow2(bit))
         ELSE QuotLimb(cur, b, bit - 1, acc)

\* quotient and remainder of a by any nonzero b, limb by limb from the top
RECURSIVE BDivBig(_, _)
BDivBig(a, b) ==
    IF a = <<>> THEN [q |-> <<>>, r |-> <<>>]
    ELSE LET hi == BDivBig(Tail(a), b)
             cur == BNorm(<<Head(a)>> \o hi.r)
             d == QuotLimb(cur, b, LimbBits - 1, 0)
         IN  [q |-> <<d>> \o hi.q, r |-> BSub(cur, BMulSmall(b, d, 0))]

BDivMod(a, b) ==
    IF Len(b) = 1
    THEN LET d == BDivSmall(a, b[1]) IN [q |-> BNorm(d.q), r |-> BFromNat(d.r)]
    ELSE LET d == BDivBig(a, b) IN [q |-> BNorm(d.q), r |-> d.r]

----------------------------------------------------------------------------
(* binary64 numbers and the operations of the language on them.            *)

MantBits == 53
MaxExp == 1024

Fin(s, m, e) == [k |-> "fin", s |-> s, m |-> m, e |-> e]
NaN == [k |-> "nan", s |-> 0, m |-> <<>>, e |-> 0]
Inf(s) == [k |-> "inf", s |-> s, m |-> <<>>, e |-> 0]
Zero(s) == Fin(s, <<>>, 0)

IsNaN(a) == a.k = "nan"
IsInf(a) == a.k = "inf"
IsZero(a) == a.k = "fin" /\ a.m = <<>>
SignXor(a, b) == (a.s + b.s) % 2

\* the number (-1)^s * m * 2^e with m of at most MantBits bits, m made odd
Canon(s, m, e) ==
    IF m = <<>> THEN Zero(s)
    ELSE IF BitLen(m) + e > MaxExp THEN Inf(s)
    ELSE LET z == BTz(m) IN Fin(s, BShr(m, z), e + z)

\* the exact value (-1)^s * m * 2^e rounded to nearest, ties to even
RoundFin(s, m, e) ==
    IF BitLen(m) <= MantBits THEN Canon(s, m, e)
    ELSE LET sh == BitLen(m) - MantBits
             q == BShr(m, sh)
             up == /\ BBit(m, sh - 1) = 1
                   /\ (BAnyLow(m, sh - 1) \/ BBit(q, 0) = 1)
         IN  Canon(s, IF up THEN BAdd(q, <<1>>) ELSE q, e + sh)

FromInt(n) == Canon(IF n < 0 THEN 1 ELSE 0, BFromNat(IF n < 0 THEN -n ELSE n), 0)

\* the integer an integer-valued finite number holds
ToInt(a) == (IF a.s = 1 THEN -1 ELSE 1) * BToNat(BShl(a.m, a.e))

Neg(a) == IF IsNaN(a) THEN a ELSE [a EXCEPT !.s = 1 - a.s]

Mul(a, b) ==
    IF IsNaN(a) \/ IsNaN(b) THEN NaN
    ELSE IF IsInf(a) \/ IsInf(b)
         THEN (IF IsZero(a) \/ IsZero(b) THEN NaN ELSE Inf(SignXor(a, b)))
    ELSE RoundFin(SignXor(a, b), BMul(a.m, b.m), a.e + b.e)

AddFin(a, b) ==
    IF IsZero(a) /\ IsZero(b) THEN Zero(IF a.s = 1 /\ b.s = 1 THEN 1 ELSE 0)
    ELSE IF IsZero(a) THEN b
    ELSE IF IsZero(b) THEN a
    ELSE LET e == IF a.e < b.e THEN a.e ELSE b.e
             x == BShl(a.m, a.e - e)
             y == BShl(b.m, b.e - e)
             c == BCmp(x, y)
         IN  IF a.s = b.s THEN RoundFin(a.s, BAdd(x, y), e)
             ELSE IF c = 0 THEN Zero(0)
             ELSE IF c > 0 THEN RoundFin(a.s, BSub(x, y), e)
             ELSE RoundFin(b.s, BSub(y, x), e)

Add(a, b) ==
    IF IsNaN(a) \/ IsNaN(b) THEN NaN
    ELSE IF IsInf(a) /\ IsInf(b) THEN (IF a.s = b.s THEN a ELSE NaN)
    ELSE IF IsInf(a) THEN a
    ELSE IF IsInf(b) THEN b
    ELSE AddFin(a, b)

Sub(a, b) == Add(a, Neg(b))

\* a / b for finite nonzero a, b: the quotient carries at least two bits
\* more than the mantissa, and a last bit telling a nonzero remainder
DivFin(a, b) ==
    LET k == IF MantBits + 2 + BitLen(b.m) > BitLen(a.m)
             THEN MantBits + 2 + BitLen(b.m) - BitLen(a.m) ELSE 0
        d == BDivMod(BShl(a.m, k), b.m)
        sticky == IF d.r = <<>> THEN 0 ELSE 1
    IN  RoundFin(SignXor(a, b), BAddC(d.q, d.q, sticky), a.e - b.e - k - 1)

Div(a, b) ==
    IF IsNaN(a) \/ IsNaN(b) THEN NaN
    ELSE IF IsInf(a) THEN (IF IsInf(b) THEN NaN ELSE Inf(SignXor(a, b)))
    ELSE IF IsInf(b) THEN Zero(SignXor(a, b))
    ELSE IF IsZero(b) THEN (IF IsZero(a) THEN NaN ELSE Inf(SignXor(a, b)))
    ELSE IF IsZero(a) THEN Zero(SignXor(a, b))
    ELSE DivFin(a, b)

\* -1, 0, 1 for the order of two magnitudes of finite numbers
CmpMag(a, b) ==
    IF a.m = <<>> \/ b.m = <<>>
    THEN (IF a.m = b.m THEN 0 ELSE IF a.m = <<>> THEN -1 ELSE 1)
    ELSE IF BitLen(a.m) + a.e < BitLen(b.m) + b.e THEN -1
    ELSE IF BitLen(a.m) + a.e > BitLen(b.m) + b.e THEN 1
    ELSE LET e == IF a.e < b.e THEN a.e ELSE b.e
         IN  BCmp(BShl(a.m, a.e - e), BShl(b.m, b.e - e))

Sgn(a) == IF IsZero(a) THEN 0 ELSE IF a.s = 1 THEN -1 ELSE 1

\* -1, 0, 1 for the order of two numbers that are not NaN
Cmp(a, b) ==
    IF Sgn(a) # Sgn(b) THEN (IF Sgn(a) < Sgn(b) THEN -1 ELSE 1)
    ELSE IF Sgn(a) = 0 THEN 0
    ELSE IF IsInf(a) \/ IsInf(b)
         THEN (IF IsInf(a) /\ IsInf(b) THEN 0
               ELSE IF IsInf(a) THEN Sgn(a) ELSE -Sgn(a))
    ELSE Sgn(a) * CmpMag(a, b)

Lt(a, b) == ~IsNaN(a) /\ ~IsNaN(b) /\ Cmp(a, b) < 0
Gt(a, b) == ~IsNaN(a) /\ ~IsNaN(b) /\ Cmp(a, b) > 0
Le(a, b) == ~IsNaN(a) /\ ~IsNaN(b) /\ Cmp(a, b) <= 0
Ge(a, b) == ~IsNaN(a) /\ ~IsNaN(b) /\ Cmp(a, b) >= 0

MathMax(a, b) ==
    IF IsNaN(a) \/ IsNaN(b) THEN NaN
    ELSE IF Cmp(a, b) > 0 THEN a
    ELSE IF Cmp(a, b) < 0 THEN b
    ELSE IF a.s = 0 THEN a ELSE b

MathMin(a, b) ==
    IF IsNaN(a) \/ IsNaN(b) THEN NaN
    ELSE IF Cmp(a, b) < 0 THEN a
    ELSE IF Cmp(a, b) > 0 THEN b
    ELSE IF a.s = 1 THEN a ELSE b

\* Math.round: the nearest integer, a tie going towards +Infinity
MathRound(a) ==
    IF a.k # "fin" \/ a.e >= 0 THEN a
    ELSE LET f == -a.e
             q == BShr(a.m, f)
             up == /\ BBit(a.m, f - 1) = 1
                   /\ (a.s = 0 \/ BAnyLow(a.m, f - 1))
         IN  Canon(a.s, IF up THEN BAdd(q, <<1>>) ELSE q, 0)

----------------------------------------------------------------------------
(* lib/vitality-engine.ts                                                  *)

VitalityState == {"dormant", "recovering", "stable", "thriving", "supernova"}

\* an emoji is written as its code point
STATE_CONFIGS ==
    [ dormant |->
        [ label |-> "Dormant", emoji |-> "U+1F311",
          color |-> "text-pulse-muted", glowColor |-> "#4a5080",
          description |-> "Repository activity has ceased. Awaiting revival.",
          mascotAnimation |-> "idle", particleCount |-> 0,
          ringColor |-> "conic-gradient(from 0deg, #4a5080, #2a2d4a, #4a5080)" ],
      recovering |->
        [ label |-> "Recovering", emoji |-> "U+1F312",
          color |-> "text-pulse-amber", glowColor |-> "#ffb830",
          description |-> "Faint signals detected. Growth patterns emerging.",
          mascotAnimation |-> "breathe", particleCount |-> 4,
          ringColor |-> "conic-gradient(from 0deg, #ffb830, #ff6b00, #ffb830)" ],
      stable |->
        [ label |-> "Stable", emoji |-> "U+1F317",
          color |-> "text-pulse-cyan", glowColor |-> "#00d4ff",
          description |-> "Consistent cadence. The system holds steady.",
          mascotAnimation |-> "pulse", particleCount |-> 8,
          ringColor |-> "conic-gradient(from 0deg, #00d4ff, #0066ff, #00d4ff)" ],
      thriving |->
        [ label |-> "Thriving", emoji |-> "U+1F315",
          color |-> "text-pulse-green", glowColor |-> "#00ff9d",
          description |->
              "Peak performance. High contributor momentum detected.",
          mascotAnimation |-> "orbit", particleCount |-> 16,
          ringColor |->
              "conic-gradient(from 0deg, #00ff9d, #00b4d8, #6c63ff, #00ff9d)" ],
      supernova |->
        [ label |-> "Supernova", emoji |-> "U+2728",
          color |-> "text-yellow-300", glowColor |-> "#ff6b35",
          description |->
              "CRITICAL MASS ACHIEVED. Extraordinary activity surge.",
          mascotAnimation |-> "supernova", particleCount |-> 32,
          ringColor |->
              "conic-gradient(from 0deg, #ff6b35, #ff4069, #6c63ff, #00ff9d, #ffb830, #ff6b35)" ] ]

\* the number literals of computeVitality; a decimal literal denotes the
\* binary64 nearest to it, which is what the correctly rounded quotient is
CommitWeight == Div(FromInt(5), FromInt(10))
PrWeight == Div(FromInt(3), FromInt(10))
StaleWeight == Div(FromInt(2), FromInt(10))
MAX_EXPECTED_SCORE == 120
TrendMargin == 10
StaleDiscount == Div(FromInt(5), FromInt(10))

\* resolveState with the thresholds made right-inclusive
resolveStateInclusive(score) ==
    IF Le(score, FromInt(0)) THEN "dormant"
    ELSE IF Le(score, FromInt(25)) THEN "recovering"
    ELSE IF Le(score, FromInt(60)) THEN "stable"
    ELSE IF Le(score, FromInt(90)) THEN "thriving"
    ELSE "supernova"

\* resolveState with the states of the two middle ranges exchanged
resolveStateExchanged(score) ==
    IF Lt(score, FromInt(0)) THEN "dormant"
    ELSE IF Lt(score, FromInt(25)) THEN "stable"
    ELSE IF Lt(score, FromInt(60)) THEN "recovering"
    ELSE IF Lt(score, FromInt(90)) THEN "thriving"
    ELSE "supernova"

resolveState(score) ==
    IF Lt(score, FromInt(0)) THEN "dormant"
    ELSE IF Lt(score, FromInt(25)) THEN "recovering"
    ELSE IF Lt(score, FromInt(60)) THEN "stable"
    ELSE IF Lt(score, FromInt(90)) THEN "thriving"
    ELSE "supernova"

\* Math.round(x * 10) / 10
Round1(x) == Div(MathRound(Mul(x, FromInt(10))), FromInt(10))

\* the clamp with its upper limit left out
ClampFloorOnly(x) == MathMax(FromInt(0), x)

\* Math.max(0, Math.min(100, x))
Clamp100(x) == MathMax(FromInt(0), MathMin(FromInt(100), x))

\* the stale ratio without the guard on totalIssues
StaleRatioUnguarded(metrics) ==
    Div(FromInt(metrics.staleIssues), FromInt(metrics.totalIssues))

\* the stale ratio taken against the star count
StaleRatioOfStars(metrics) ==
    IF metrics.totalStars > 0
    THEN Div(FromInt(metrics.staleIssues), FromInt(metrics.totalStars))
    ELSE FromInt(0)

\* metrics.totalIssues > 0 ? metrics.staleIssues / metrics.totalIssues : 0
StaleRatio(metrics) ==
    IF metrics.totalIssues > 0
    THEN Div(FromInt(metrics.staleIssues), FromInt(metrics.totalIssues))
    ELSE FromInt(0)

\* the health factor with the halving of the ratio left out
HealthFactorFull(staleRatio) == Sub(FromInt(1), staleRatio)

\* a factor that grows with the stale ratio
HealthFactorBonus(staleRatio) == Add(FromInt(1), Mul(staleRatio, StaleDiscount))

\* 1 - staleRatio * 0.5
HealthFactor(staleRatio) == Sub(FromInt(1), Mul(staleRatio, StaleDiscount))

\* a lookup that falls back to one fixed entry
ConfigOfDefault(state) == STATE_CONFIGS["stable"]

\* the table is a module-level object: what it holds at any moment is state
VARIABLE configs

\* a lookup whose entries all carry the particle count of stable
ConfigOfFlat(state) == [configs[state] EXCEPT !.particleCount = 8]

\* STATE_CONFIGS[state]
ConfigOf(state) == configs[state]

\* the trend with the margin compared by >=
TrendInclusive(commitMomentum, closureMomentum) ==
    IF Ge(commitMomentum, Add(closureMomentum, FromInt(TrendMargin)))
    THEN "rising"
    ELSE IF Ge(closureMomentum, Add(commitMomentum, FromInt(TrendMargin)))
    THEN "falling"
    ELSE "flat"

Trend(commitMomentum, closureMomentum) ==
    IF Gt(commitMomentum, Add(closureMomentum, FromInt(TrendMargin)))
    THEN "rising"
    ELSE IF Gt(closureMomentum, Add(commitMomentum, FromInt(TrendMargin)))
    THEN "falling"
    ELSE "flat"

\* the local constants of one call of computeVitality, in program order
VitalityLocals(metrics) ==
    LET commitContribution == Mul(FromInt(metrics.commits), CommitWeight)
        prContribution == Mul(FromInt(metrics.prsMerged), PrWeight)
        stalePenalty == Mul(FromInt(metrics.staleIssues), StaleWeight)
        score == Sub(Add(commitContribution, prContribution), stalePenalty)
        normalizedScore ==
            Clamp100(Mul(Div(score, FromInt(MAX_EXPECTED_SCORE)), FromInt(100)))
        state == resolveState(score)
        staleRatio == StaleRatio(metrics)
        healthPercentage ==
            Clamp100(Mul(normalizedScore, HealthFactor(staleRatio)))
        commitMomentum == Mul(FromInt(metrics.commits), CommitWeight)
        closureMomentum == Mul(FromInt(metrics.prsMerged), PrWeight)
    IN  [ commitContribution |-> commitContribution,
          prContribution |-> prContribution,
          stalePenalty |-> stalePenalty,
          score |-> score,
          normalizedScore |-> normalizedScore,
          state |-> state,
          stateConfig |-> ConfigOf(state),
          staleRatio |-> staleRatio,
          healthPercentage |-> healthPercentage,
          trend |-> Trend(commitMomentum, closureMomentum) ]

\* the report with the stale penalty of the breakdown taken from the
\* pull-request term
VitalityReportSwapped(l) ==
    [ score |-> Round1(l.score),
      normalizedScore |-> Round1(l.normalizedScore),
      state |-> l.state,
      breakdown |-> [ commitContribution |-> Round1(l.commitContribution),
                      prContribution |-> Round1(l.prContribution),
                      stalePenalty |-> Round1(l.prContribution) ],
      stateConfig |-> l.stateConfig,
      trend |-> l.trend,
      healthPercentage |-> MathRound(l.healthPercentage) ]

\* the report with the normalised score left unrounded
VitalityReportUnrounded(l) ==
    [ score |-> Round1(l.score),
      normalizedScore |-> l.normalizedScore,
      state |-> l.state,
      breakdown |-> [ commitContribution |-> Round1(l.commitContribution),
                      prContribution |-> Round1(l.prContribution),
                      stalePenalty |-> Round1(l.stalePenalty) ],
      stateConfig |-> l.stateConfig,
      trend |-> l.trend,
      healthPercentage |-> MathRound(l.healthPercentage) ]

\* the object computeVitality returns, built from its locals
VitalityReport(l) ==
    [ score |-> Round1(l.score),
      normalizedScore |-> Round1(l.normalizedScore),
      state |-> l.state,
      breakdown |-> [ commitContribution |-> Round1(l.commitContribution),
                      prContribution |-> Round1(l.prContribution),
                      stalePenalty |-> Round1(l.stalePenalty) ],
      stateConfig |-> l.stateConfig,
      trend |-> l.trend,
      healthPercentage |-> MathRound(l.healthPercentage) ]

computeVitality(metrics) == VitalityReport(VitalityLocals(metrics))

----------------------------------------------------------------------------
(* One call of computeVitality: the argument is drawn from three families  *)
(* of RawMetrics, the call computes its locals and returns the report.     *)

MaxFine == 6
MaxWideCommits == 26
MaxWidePrs == 2
MaxWideIssues == 2
MaxInfo == 1

Dates == {"2024-01-01T00:00:00.000Z", "2024-06-30T12:00:00.000Z"}

RawMetrics(c, p, s, t, stars, forks, contrib, date) ==
    [ commits |-> c, prsMerged |-> p, staleIssues |-> s, totalIssues |-> t,
      totalStars |-> stars, totalForks |-> forks, contributors |-> contrib,
      lastCommitDate |-> date ]

Plain(c, p, s, t) == RawMetrics(c, p, s, t, 0, 0, 0, "2024-01-01T00:00:00.000Z")

\* every combination of small counts
FineInputs ==
    { Plain(c, p, s, t) : c \in 0..MaxFine, p \in 0..MaxFine,
                          s \in 0..MaxFine, t \in 0..MaxFine }

\* counts that carry the score across every threshold and past the ceiling
WideInputs ==
    { Plain(10 * c, 50 * p, 25 * s, 25 * t) :
        c \in 0..MaxWideCommits, p \in 0..MaxWidePrs,
        s \in 0..MaxWideIssues, t \in 0..MaxWideIssues }

\* every combination of the informational fields
InfoInputs ==
    { RawMetrics(x[1], x[2], x[3], x[4], y[1], y[2], y[3], d) :
        x \in (0..MaxInfo) \X (0..MaxInfo) \X (0..MaxInfo) \X (0..MaxInfo),
        y \in (0..MaxInfo) \X (0..MaxInfo) \X (0..MaxInfo),
        d \in Dates }

Inputs == FineInputs \cup WideInputs \cup InfoInputs

NoLocals == [state |-> "none"]
NoReport == [state |-> "none"]

VARIABLES metrics, locals, report, pc

\* what the rendering collaborators have produced from the report
VARIABLE view

\* the invocations of computeVitality that are in flight together
VARIABLE calls

NoView == [done |-> {}, client |-> <<>>, grid |-> <<>>, mascot |-> <<>>]
\* the call of a formatting utility: its argument and what it returned
VARIABLE util

\* the data-fetching collaborator: the GITHUB_TOKEN of the environment, what
\* GitHub holds and how its endpoints behave, the last reading of the wall
\* clock, the invocation of fetchDashboardData in flight, and the
\* dashboards returned so far
VARIABLES token, gh, clock, fetch, dash

NoCalls == [metrics |-> <<>>, frames |-> <<>>, reports |-> <<>>, pc |-> <<>>]

pageVars == <<view>>
concVars == <<calls>>
utilVars == <<util>>

\* the state of a RepoSearchBar instance with what it has asked of its
\* parent and of the router, and the call of buildTimeline
VARIABLES bar, timeline
uiVars == <<bar, timeline>>
NoBar == [inputValue |-> <<>>, isFocused |-> FALSE, error |-> "none",
          isNavigating |-> FALSE, navigated |-> 0, pushed |-> <<>>]
NoTimeline == [pc |-> "idle", input |-> <<>>, out |-> <<>>]
UiIdle == bar = NoBar /\ timeline = NoTimeline
fetchVars == <<token, gh, clock, fetch, dash>>

NoToken == "unset"
NoGitHub == [mode |-> <<>>, repo |-> <<>>, commits |-> <<>>, pulls |-> <<>>,
             issues |-> <<>>, contributors |-> <<>>]
NoFetch == [pc |-> "idle", target |-> <<>>, since |-> <<>>, replies |-> <<>>,
            reads |-> <<>>]

FetchIdle ==
    /\ token = NoToken
    /\ gh = NoGitHub
    /\ clock = 0
    /\ fetch = NoFetch
    /\ dash = <<>>

NoUtil == [fn |-> "none", arg |-> <<>>, out |-> <<>>]

vars ==
    <<metrics, locals, report, pc, configs, view, calls, util,
      token, gh, clock, fetch, dash, bar, timeline>>

Init ==
    /\ metrics \in Inputs
    /\ locals = NoLocals
    /\ report = NoReport
    /\ pc = "call"
    /\ configs = STATE_CONFIGS
    /\ view = NoView
    /\ calls = NoCalls
    /\ util = NoUtil
    /\ UiIdle
    /\ FetchIdle

ComputeVitality ==
    /\ pc = "call"
    /\ locals' = VitalityLocals(metrics)
    /\ report' = VitalityReport(locals')
    /\ pc' = "returned"
    /\ UNCHANGED <<metrics, configs, pageVars, concVars, utilVars, fetchVars, uiVars>>

Next == ComputeVitality

Spec == Init /\ [][Next]_vars

----------------------------------------------------------------------------
(* Exact arithmetic for stating the properties: no rounding takes place.   *)

Returned == pc = "returned"

Eq(a, b) == ~IsNaN(a) /\ ~IsNaN(b) /\ Cmp(a, b) = 0
IsFinite(a) == a.k = "fin"

\* a * n and a + b as exact dyadic rationals
TimesExact(a, n) == Fin(a.s, BMulSmall(a.m, n, 0), a.e)
PlusExact(a, b) ==
    IF IsZero(a) THEN b
    ELSE IF IsZero(b) THEN a
    ELSE LET e == IF a.e < b.e THEN a.e ELSE b.e
             x == BShl(a.m, a.e - e)
             y == BShl(b.m, b.e - e)
         IN  IF a.s = b.s THEN Fin(a.s, BAdd(x, y), e)
             ELSE IF BCmp(x, y) >= 0 THEN Fin(a.s, BSub(x, y), e)
             ELSE Fin(b.s, BSub(y, x), e)
Abs(a) == [a EXCEPT !.s = 0]

\* the number written n/10 with one decimal
Decimal1(n) == Div(FromInt(n), FromInt(10))

\* the integer nearest to 10 * a
Tenths(a) == ToInt(MathRound(TimesExact(a, 10)))

\* the score in tenths, in exact arithmetic: 5*commits + 3*prs - 2*stale
ScoreTenths(m) == 5 * m.commits + 3 * m.prsMerged - 2 * m.staleIssues

InUnitRange(a) == Ge(a, FromInt(0)) /\ Le(a, FromInt(100))

\* C1: normalizedScore and healthPercentage of every report lie in [0, 100]
C1_ScoresWithinRange ==
    Returned =>
        /\ InUnitRange(report.normalizedScore)
        /\ InUnitRange(report.healthPercentage)
        /\ InUnitRange(locals.normalizedScore)

C1_Witness ==
    /\ Returned
    /\ metrics.commits >= 250
    /\ Eq(report.normalizedScore, FromInt(100))
    /\ Eq(report.healthPercentage, FromInt(100))

\* the state the threshold table gives for a score
StateByRange(score) ==
    { st \in VitalityState :
        \/ st = "dormant" /\ Lt(score, FromInt(0))
        \/ st = "recovering" /\ Ge(score, FromInt(0)) /\ Lt(score, FromInt(25))
        \/ st = "stable" /\ Ge(score, FromInt(25)) /\ Lt(score, FromInt(60))
        \/ st = "thriving" /\ Ge(score, FromInt(60)) /\ Lt(score, FromInt(90))
        \/ st = "supernova" /\ Ge(score, FromInt(90)) }

C4_BreakdownSum ==
    Returned =>
        LET sum == PlusExact(PlusExact(report.breakdown.commitContribution,
                                       report.breakdown.prContribution),
                             Neg(report.breakdown.stalePenalty))
            diff == Abs(PlusExact(sum, Neg(report.score)))
        IN  Le(TimesExact(diff, 10), FromInt(1))

C4_Witness ==
    /\ Returned
    /\ metrics.commits > 0 /\ metrics.prsMerged > 0 /\ metrics.staleIssues > 0
    /\ ~IsZero(report.breakdown.stalePenalty)
    /\ ~Eq(report.breakdown.prContribution, report.breakdown.stalePenalty)
    /\ ~IsZero(report.score)

\* healthPercentage is at least half of the unrounded normalizedScore, up to
\* the rounding to an integer: normalizedScore <= 2 * healthPercentage + 1
HalfBound ==
    Le(locals.normalizedScore, FromInt(2 * ToInt(report.healthPercentage) + 1))

\* C5, as stated: for every non-negative input the stale debt takes away at
\* most half of the health
C5_Original == Returned => HalfBound

\* C5, amended: the same when staleIssues <= totalIssues
C5_HalfBoundWhenStaleWithinTotal ==
    (Returned /\ metrics.staleIssues <= metrics.totalIssues) => HalfBound

C5_Witness ==
    /\ Returned
    /\ metrics.staleIssues = metrics.totalIssues
    /\ metrics.totalIssues > 0
    /\ ToInt(report.healthPercentage) > 10
    /\ Lt(FromInt(2 * ToInt(report.healthPercentage) - 1), locals.normalizedScore)

ReportIsNumeric ==
    /\ IsFinite(report.score)
    /\ IsFinite(report.normalizedScore)
    /\ IsFinite(report.healthPercentage)
    /\ IsFinite(report.breakdown.commitContribution)
    /\ IsFinite(report.breakdown.prContribution)
    /\ IsFinite(report.breakdown.stalePenalty)
    /\ report.state \in VitalityState
    /\ report.trend \in {"rising", "falling", "flat"}

\* h is the integer nearest to a, a tie going up: h - 1/2 <= a < h + 1/2
IsRoundOf(h, a) ==
    /\ Ge(TimesExact(a, 2), FromInt(2 * h - 1))
    /\ Lt(TimesExact(a, 2), FromInt(2 * h + 1))

TrendByCounts(m) ==
    IF 5 * m.commits > 3 * m.prsMerged + 100 THEN "rising"
    ELSE IF 3 * m.prsMerged > 5 * m.commits + 100 THEN "falling"
    ELSE "flat"

\* C7: the trend is rising iff commits*0.5 > prsMerged*0.3 + 10, falling iff
\* prsMerged*0.3 > commits*0.5 + 10, flat otherwise, whatever the issue
\* counts are
C7_TrendByMargin ==
    Returned =>
        /\ report.trend = TrendByCounts(metrics)
        /\ report.trend = "rising" <=>
               5 * metrics.commits > 3 * metrics.prsMerged + 100
        /\ report.trend = "falling" <=>
               3 * metrics.prsMerged > 5 * metrics.commits + 100

C7_Witness ==
    /\ Returned
    /\ metrics.commits = 0 /\ metrics.prsMerged = 50
    /\ metrics.staleIssues > 0
    /\ report.trend = "falling"

\* C9: the stateConfig of a report is the table's entry for the report's state
C9_ConfigOfState ==
    Returned =>
        /\ report.state \in DOMAIN STATE_CONFIGS
        /\ report.stateConfig = STATE_CONFIGS[report.state]
        /\ \A st \in VitalityState \ {report.state} :
               report.stateConfig # STATE_CONFIGS[st]

C9_Witness ==
    /\ Returned
    /\ report.state = "supernova"
    /\ report.stateConfig.particleCount = 32

\* the metrics with the informational fields set to fixed values
Scrub(m) == Plain(m.commits, m.prsMerged, m.staleIssues, m.totalIssues)

\* C10: the report is the one of the metrics with other informational fields
C10_InformationalFieldsUnused ==
    Returned => report = computeVitality(Scrub(metrics))

C10_Witness ==
    /\ Returned
    /\ metrics.totalStars > 0 /\ metrics.totalForks > 0
    /\ metrics.contributors > 0
    /\ metrics.lastCommitDate # Scrub(metrics).lastCommitDate
    /\ metrics.staleIssues > 0

----------------------------------------------------------------------------
(* Several invocations of computeVitality in flight together.  Each        *)
(* invocation computes its locals and then builds its report; the steps    *)
(* of different invocations interleave in any order.  A JavaScript realm   *)
(* runs one invocation to completion, so the interleavings here include    *)
(* every schedule the runtime can produce.                                 *)

MaxCallers == 2
MaxConc == 4

Callers == 1..MaxCallers

ConcInputs == { Plain(10 * k, 3 * k, k, 2 * k) : k \in 0..MaxConc }

\* the locals of every invocation kept in one slot
FrameShared(i) == 1

\* const declarations are local to the invocation that executes them
FrameOf(i) == i

ConcInit ==
    /\ calls \in { [ metrics |-> m,
                     frames |-> [i \in Callers |-> NoLocals],
                     reports |-> [i \in Callers |-> NoReport],
                     pc |-> [i \in Callers |-> "call"] ] :
                   m \in { f \in [Callers -> ConcInputs] :
                             \A i, j \in Callers : i # j => f[i] # f[j] } }
    /\ metrics = Plain(0, 0, 0, 0)
    /\ locals = NoLocals
    /\ report = NoReport
    /\ pc = "idle"
    /\ configs = STATE_CONFIGS
    /\ view = NoView
    /\ util = NoUtil
    /\ UiIdle
    /\ FetchIdle

\* lines 115-142 of invocation i
CallCompute(i) ==
    /\ calls.pc[i] = "call"
    /\ calls' = [calls EXCEPT
                   !.frames[FrameOf(i)] = VitalityLocals(calls.metrics[i]),
                   !.pc[i] = "computed"]
    /\ UNCHANGED <<metrics, locals, report, pc, configs, pageVars, utilVars, fetchVars, uiVars>>

\* lines 144-156 of invocation i
CallReturn(i) ==
    /\ calls.pc[i] = "computed"
    /\ calls' = [calls EXCEPT
                   !.reports[i] = VitalityReport(calls.frames[FrameOf(i)]),
                   !.pc[i] = "returned"]
    /\ UNCHANGED <<metrics, locals, report, pc, configs, pageVars, utilVars, fetchVars, uiVars>>

ConcNext == \E i \in Callers : CallCompute(i) \/ CallReturn(i)

ConcSpec == ConcInit /\ [][ConcNext]_vars

\* C11: however the invocations interleave, the locals an invocation has
\* computed are those of its own argument, and the report it returns is
\* the report computeVitality gives for that argument on its own.
C11_CallsIndependent ==
    \A i \in DOMAIN calls.pc :
        /\ calls.pc[i] = "computed" =>
               calls.frames[i] = VitalityLocals(calls.metrics[i])
        /\ calls.pc[i] = "returned" =>
               calls.reports[i] = computeVitality(calls.metrics[i])

\* two invocations have returned and their reports differ
C11_Witness ==
    /\ DOMAIN calls.pc = Callers
    /\ \A i \in Callers : calls.pc[i] = "returned"
    /\ \E i, j \in Callers : calls.reports[i] # calls.reports[j]

----------------------------------------------------------------------------
(* The page: computeVitality is called on the fetched metrics and the      *)
(* report is handed to DashboardClient, which hands it on to MetricGrid    *)
(* and MascotCanvas.  A collaborator is an operator from the report it is  *)
(* given to the report as it is after the render and the output rendered.  *)

\* Math.abs
MathAbs(a) == IF IsNaN(a) THEN a ELSE [a EXCEPT !.s = 0]

\* x.toFixed(0) of a number from 0 to 100, as the integer it prints
ToFixed0(x) == ToInt(MathRound(x))

\* one bar of the breakdown card
BreakdownItem(label, value, positive) ==
    [ label |-> label,
      value |-> value,
      sign |-> IF positive THEN "+" ELSE "",
      barWidth |-> MathMin(FromInt(100),
                           Mul(Div(MathAbs(value), FromInt(80)), FromInt(100))) ]

BreakdownOut(rep) ==
    [ bar |-> rep.stateConfig.glowColor,
      scoreSign |-> IF Gt(rep.score, FromInt(0)) THEN "+" ELSE "",
      score |-> rep.score,
      items |-> << BreakdownItem("Commits x0.5",
                                 rep.breakdown.commitContribution, TRUE),
                   BreakdownItem("PRs Merged x0.3",
                                 rep.breakdown.prContribution, TRUE),
                   BreakdownItem("Stale Issues x0.2",
                                 Neg(rep.breakdown.stalePenalty), FALSE) >> ]

\* the card negating the penalty inside the report it was given
VitalityBreakdownInPlace(rep) ==
    [ report |-> [rep EXCEPT !.breakdown.stalePenalty = Neg(@)],
      out |-> BreakdownOut(rep) ]

VitalityBreakdown(rep) == [ report |-> rep, out |-> BreakdownOut(rep) ]

\* the cards of the grid that read the report, and the breakdown card
MetricGrid(m, rep) ==
    LET card == VitalityBreakdown(rep)
    IN  [ report |-> card.report,
          out |->
            [ vitality |->
                [ value |-> ToFixed0(rep.normalizedScore),
                  sublabel |-> rep.stateConfig.label,
                  trend |-> IF rep.trend = "rising" THEN "up"
                            ELSE IF rep.trend = "falling" THEN "down"
                            ELSE "flat",
                  color |-> rep.stateConfig.glowColor ],
              health |->
                [ value |-> rep.healthPercentage,
                  trend |-> IF Gt(rep.healthPercentage, FromInt(70)) THEN "up"
                            ELSE IF Lt(rep.healthPercentage, FromInt(40))
                            THEN "down"
                            ELSE "flat" ],
              commits |-> m.commits,
              prsMerged |-> m.prsMerged,
              breakdown |-> card.out ] ]

MascotCanvas(rep) ==
    [ report |-> rep,
      out |-> [ eyes |-> rep.state,
                body |-> rep.state,
                animation |-> rep.stateConfig.mascotAnimation,
                particles |-> rep.stateConfig.particleCount,
                glow |-> rep.stateConfig.glowColor,
                ringFilled |-> Div(rep.healthPercentage, FromInt(100)),
                badge |-> <<rep.stateConfig.emoji, rep.stateConfig.label>> ] ]

DashboardClient(rep) ==
    [ report |-> rep,
      out |-> [ glowColor |-> rep.stateConfig.glowColor,
                ringColor |-> rep.stateConfig.ringColor ] ]

RenderDashboardClient ==
    /\ pc = "returned"
    /\ "client" \notin view.done
    /\ LET r == DashboardClient(report)
       IN  /\ report' = r.report
           /\ view' = [view EXCEPT !.done = @ \cup {"client"}, !.client = r.out]
    /\ UNCHANGED <<metrics, locals, pc, configs, concVars, utilVars, fetchVars, uiVars>>

RenderMetricGrid ==
    /\ "client" \in view.done
    /\ "grid" \notin view.done
    /\ LET r == MetricGrid(metrics, report)
       IN  /\ report' = r.report
           /\ view' = [view EXCEPT !.done = @ \cup {"grid"}, !.grid = r.out]
    /\ UNCHANGED <<metrics, locals, pc, configs, concVars, utilVars, fetchVars, uiVars>>

RenderMascotCanvas ==
    /\ "client" \in view.done
    /\ "mascot" \notin view.done
    /\ LET r == MascotCanvas(report)
       IN  /\ report' = r.report
           /\ view' = [view EXCEPT !.done = @ \cup {"mascot"}, !.mascot = r.out]
    /\ UNCHANGED <<metrics, locals, pc, configs, concVars, utilVars, fetchVars, uiVars>>

PageNext ==
    \/ ComputeVitality
    \/ RenderDashboardClient
    \/ RenderMetricGrid
    \/ RenderMascotCanvas

PageSpec == Init /\ [][PageNext]_vars

\* C12: no step of the page changes the configuration table or the
\* RawMetrics argument, and once computeVitality has returned its report no
\* step changes that report: the collaborators only read it.
C12_NothingMutated ==
    [][ /\ configs' = configs
        /\ metrics' = metrics
        /\ pc = "returned" => report' = report ]_vars

\* everything is rendered from a report with a stale penalty in it
C12_Witness ==
    /\ view.done = {"client", "grid", "mascot"}
    /\ view.grid.breakdown.items[3].value = Neg(report.breakdown.stalePenalty)
    /\ ~IsZero(report.breakdown.stalePenalty)
    /\ configs = STATE_CONFIGS

----------------------------------------------------------------------------
(* The formatting utilities of lib/vitality-engine.ts.                     *)

\* the nearest integer, where Math.floor takes the integer below
NearestInteger(a) == MathRound(a)

\* Math.floor
MathFloor(a) ==
    IF a.k # "fin" \/ a.e >= 0 THEN a
    ELSE LET f == -a.e
             q == BShr(a.m, f)
         IN  Canon(a.s, IF a.s = 1 /\ BAnyLow(a.m, f)
                        THEN BAdd(q, <<1>>) ELSE q, 0)

\* x.toFixed(1) cut off after the first decimal instead of rounded
ToFixed1Cut(x) ==
    (IF x.s = 1 THEN -1 ELSE 1) * BToNat(BShr(BShl(BMulSmall(x.m, 10, 0),
        IF x.e > 0 THEN x.e ELSE 0), IF x.e < 0 THEN -x.e ELSE 0))

\* x.toFixed(1) of a finite x, as the number of tenths it prints: the
\* integer n with n / 10 nearest to the exact x, the larger n on a tie of
\* the magnitudes
ToFixed1(x) ==
    (IF x.s = 1 THEN -1 ELSE 1)
        * ToInt(MathRound(Fin(0, BMulSmall(x.m, 10, 0), x.e)))

\* a decimal numeral with its suffix: the digits of the integer `digits`
\* with a point `decimals` places from the right
Numeral(digits, decimals, suffix) ==
    [digits |-> digits, decimals |-> decimals, suffix |-> suffix]

formatMetricValue(value) ==
    IF Ge(FromInt(value), FromInt(1000000))
    THEN Numeral(ToFixed1(Div(FromInt(value), FromInt(1000000))), 1, "M")
    ELSE IF Ge(FromInt(value), FromInt(1000))
    THEN Numeral(ToFixed1(Div(FromInt(value), FromInt(1000))), 1, "K")
    ELSE Numeral(value, 0, "")

\* a wall-clock reading is written as its distance in milliseconds from
\* 2023-11-14T22:13:20.000Z; an ISO timestamp is written as whole days
\* before that instant and milliseconds after them
EpochMs == Mul(FromInt(1700000), FromInt(1000000))

DayMs == Mul(Mul(Mul(FromInt(24), FromInt(60)), FromInt(60)), FromInt(1000))

Iso(days, ms) == [days |-> days, ms |-> ms]

\* Date.now() when the clock stands at `tick`
DateNow(tick) == Add(EpochMs, FromInt(tick))

\* new Date(isoDate).getTime()
GetTime(isoDate) ==
    Add(Sub(EpochMs, Mul(FromInt(isoDate.days), DayMs)), FromInt(isoDate.ms))

RelativeText(text, n, date) == [text |-> text, n |-> n, date |-> date]

\* relativeTime(isoDate) called when Date.now() is `now`
relativeTime(isoDate, now) ==
    LET diff == Sub(now, GetTime(isoDate))
        minutes == MathFloor(Div(diff, FromInt(60000)))
        hours == MathFloor(Div(diff, FromInt(3600000)))
        days == MathFloor(Div(diff, FromInt(86400000)))
    IN  IF Lt(minutes, FromInt(1)) THEN RelativeText("just now", 0, <<>>)
        ELSE IF Lt(minutes, FromInt(60))
        THEN RelativeText("m ago", ToInt(minutes), <<>>)
        ELSE IF Lt(hours, FromInt(24))
        THEN RelativeText("h ago", ToInt(hours), <<>>)
        ELSE IF Lt(days, FromInt(7))
        THEN RelativeText("d ago", ToInt(days), <<>>)
        ELSE RelativeText("month day", 0, <<isoDate>>)

MaxWindow == 60

Window(a) == { n \in (a - MaxWindow)..(a + MaxWindow) : TRUE }

\* counts around every threshold of formatMetricValue and around ties of
\* its rounding
FormatInputs ==
    { n \in UNION { Window(a) : a \in {0, 1000, 1950, 20000, 999950, 1000000,
                                       1050000, 20000000, 999950000} } :
        n >= 0 }

\* ages around every threshold of relativeTime, future timestamps included
AgeInputs ==
    UNION { Window(a) : a \in {0, 60000, 120000, 3600000, 7200000,
                               86400000, 172800000, 604800000} }

UtilInit ==
    /\ util \in { [fn |-> "formatMetricValue", arg |-> <<n>>, out |-> <<>>] :
                    n \in FormatInputs }
            \cup { [fn |-> "relativeTime",
                    arg |-> <<Iso(0, -d), 0>>, out |-> <<>>] :
                    d \in AgeInputs }
    /\ metrics = Plain(0, 0, 0, 0)
    /\ locals = NoLocals
    /\ report = NoReport
    /\ pc = "idle"
    /\ configs = STATE_CONFIGS
    /\ view = NoView
    /\ calls = NoCalls
    /\ FetchIdle
    /\ UiIdle

FormatMetricValue ==
    /\ util.fn = "formatMetricValue"
    /\ util.out = <<>>
    /\ util' = [util EXCEPT !.out = <<formatMetricValue(util.arg[1])>>]
    /\ UNCHANGED <<metrics, locals, report, pc, configs, pageVars, concVars,
                   fetchVars, uiVars>>

RelativeTime ==
    /\ util.fn = "relativeTime"
    /\ util.out = <<>>
    /\ util' = [util EXCEPT
                  !.out = <<relativeTime(util.arg[1], DateNow(util.arg[2]))>>]
    /\ UNCHANGED <<metrics, locals, report, pc, configs, pageVars, concVars,
                   fetchVars, uiVars>>

UtilNext == FormatMetricValue \/ RelativeTime

UtilSpec == UtilInit /\ [][UtilNext]_vars

FormatReturned == util.fn = "formatMetricValue" /\ util.out # <<>>

\* the numeral of `tenths` tenths is a nearest one-decimal numeral of
\* n / unit10, where unit10 is a tenth of the divisor
NearestTenth(tenths, n, unit10) ==
    LET gap == tenths * unit10 - n
    IN  2 * (IF gap < 0 THEN -gap ELSE gap) <= unit10

\* the three renderings by magnitude
FormatByMagnitude(n, o) ==
    /\ n >= 1000000 =>
           o.suffix = "M" /\ o.decimals = 1 /\ NearestTenth(o.digits, n, 100000)
    /\ (n >= 1000 /\ n < 1000000) =>
           o.suffix = "K" /\ o.decimals = 1 /\ NearestTenth(o.digits, n, 100)
    /\ n < 1000 => o = Numeral(n, 0, "")

\* the mantissa of a rendering is 1000 or more
MantissaFourDigits(o) == o.digits >= 1000 * (IF o.decimals = 1 THEN 10 ELSE 1)

\* C19 as stated: the three renderings by magnitude, and no value below
\* 1,000,000 rendered with a mantissa of 1000 or more.
C19_Original ==
    FormatReturned =>
        /\ FormatByMagnitude(util.arg[1], util.out[1])
        /\ util.arg[1] < 1000000 => ~MantissaFourDigits(util.out[1])

\* C19, amended: the three renderings by magnitude, each to a nearest tenth;
\* a value below 1,000,000 is rendered with a mantissa of 1000 or more
\* exactly when it is 999,950 or more, and that rendering is "1000.0K".
C19_FormatByMagnitude ==
    FormatReturned =>
        /\ FormatByMagnitude(util.arg[1], util.out[1])
        /\ util.arg[1] < 1000000 =>
               (MantissaFourDigits(util.out[1]) <=> util.arg[1] >= 999950)
        /\ (util.arg[1] < 1000000 /\ util.arg[1] >= 999950) =>
               util.out[1] = Numeral(10000, 1, "K")

\* 999,950 has been rendered as 1000.0K
C19_Witness ==
    /\ FormatReturned
    /\ util.arg[1] = 999950
    /\ util.out[1] = Numeral(10000, 1, "K")

RelativeReturned == util.fn = "relativeTime" /\ util.out # <<>>

\* the age of the timestamp at the call, in milliseconds
AgeOf(arg) == arg[2] - arg[1].ms

\* C20: the age d falls in exactly one bucket: "just now" below one minute,
\* whole minutes 1..59 below one hour, whole hours 1..23 below one day,
\* whole days 1..6 below seven days, the month and day of the timestamp
\* from seven days on.
C20_OneBucket ==
    RelativeReturned =>
        LET d == AgeOf(util.arg)
            o == util.out[1]
        IN  /\ d < 60000 => o = RelativeText("just now", 0, <<>>)
            /\ (d >= 60000 /\ d < 3600000) =>
                   /\ o = RelativeText("m ago", d \div 60000, <<>>)
                   /\ o.n \in 1..59
            /\ (d >= 3600000 /\ d < 86400000) =>
                   /\ o = RelativeText("h ago", d \div 3600000, <<>>)
                   /\ o.n \in 1..23
            /\ (d >= 86400000 /\ d < 604800000) =>
                   /\ o = RelativeText("d ago", d \div 86400000, <<>>)
                   /\ o.n \in 1..6
            /\ d >= 604800000 => o = RelativeText("month day", 0, <<util.arg[1]>>)

\* one millisecond short of a day is reported as 23 hours
C20_Witness ==
    /\ RelativeReturned
    /\ AgeOf(util.arg) = 86400000 - 1
    /\ util.out[1] = RelativeText("h ago", 23, <<>>)

----------------------------------------------------------------------------
(* lib/github-client.ts and generateMockMetrics of lib/vitality-engine.ts. *)

\* a value read from a payload: a number, or undefined where the property
\* is missing
Num(n) == [t |-> "number", v |-> n]
Undefined == [t |-> "undefined", v |-> 0]

\* the binary64 number (-1)^s * (hi * 2^40 + mid * 2^20 + lo) * 2^e
Binary64(s, hi, mid, lo, e) ==
    Canon(s, BAdd(BShl(BFromNat(hi), 40),
                  BAdd(BShl(BFromNat(mid), 20), BFromNat(lo))), e)

\* the sign, the three parts of the significand and the exponent of
\* Math.sin(1700000000000 + k) for k = 0, 1, ...
SinBits ==
    <<
     <<0, 8066, 197252, 387553, -53>>,
      <<0, 5561, 683893, 155867, -53>>,
      <<1, 4112, 505594, 164893, -54>>,
      <<1, 7783, 666696, 1033415, -53>>,
      <<1, 6354, 830124, 306372, -53>>,
      <<0, 7332, 995127, 974715, -56>>,
      <<0, 7345, 308266, 3858, -53>>,
      <<0, 7020, 775869, 349912, -53>>,
      <<0, 7723, 208278, 265430, -58>>,
      <<1, 6759, 981519, 471380, -53>>,
      <<1, 7546, 176189, 885177, -53>>,
      <<1, 5577, 997916, 422958, -55>>,
      <<0, 6039, 291450, 33233, -53>>,
      <<0, 7920, 586703, 920596, -53>>,
      <<0, 5039, 451309, 679290, -54>>,
      <<1, 5197, 779781, 679662, -53>> >>

\* Math.sin at the clock reading k, that is at the number 1700000000000 + k
MathSin(k) ==
    CHOOSE x \in { Binary64(b[1], b[2], b[3], b[4], b[5]) :
                     b \in { SinBits[k + 1] } } : TRUE

\* the helper `random` of generateMockMetrics at its call number `nth`
\* (from 0): seed++ has then run nth times.  A const is computed once, so
\* each is bound to its value through a one-element set.
RandomAt(seed, nth, min, max) ==
    CHOOSE r \in
        { ToInt(sum) :
            sum \in { Add(floored, FromInt(min)) :
              floored \in { MathFloor(scaled) :
                scaled \in { Mul(frac, FromInt(max - min + 1)) :
                  frac \in { Sub(x, MathFloor(x)) :
                    x \in { Mul(sine, FromInt(10000)) :
                      sine \in { MathSin(seed + nth) } } } } } } } : TRUE

\* Math.floor(totalIssues * 0.6)
StaleMax(totalIssues) ==
    ToInt(MathFloor(Mul(FromInt(totalIssues), Div(FromInt(6), FromInt(10)))))

\* the bounds of the eight calls of `random`, in the order of the calls;
\* the upper bound of the fourth call is computed from the third draw
RandomBounds ==
    << <<5, 150>>, <<2, 60>>, <<10, 80>>, <<0, 0>>,
       <<20, 5000>>, <<5, 800>>, <<3, 50>>, <<0, 7>> >>

\* generateMockMetrics called without a seed when Date.now() reads `now`:
\* commits, prsMerged, totalIssues, staleIssues, totalStars, totalForks,
\* contributors and the days of lastCommitDate are drawn in this order
generateMockMetrics(now) ==
    CHOOSE m \in
        { RawMetrics(d[1], d[2], d[4], d[3], Num(d[5]), Num(d[6]), Num(d[7]),
                     Iso(d[8], now)) :
            d \in { [ i \in 1..8 |->
                        RandomAt(now, i - 1, RandomBounds[i][1],
                                 IF i = 4 THEN StaleMax(totalIssues)
                                 ELSE RandomBounds[i][2]) ] :
                      totalIssues \in { RandomAt(now, 2, 10, 80) } } } : TRUE

MaxClock == 1

\* generateMockMetrics at every reading of the clock up to `last`
RECURSIVE MockMetricsUpTo(_)
MockMetricsUpTo(last) ==
    IF last = 0 THEN 0 :> generateMockMetrics(0)
    ELSE MockMetricsUpTo(last - 1) @@ (last :> generateMockMetrics(last))

\* generateMockMetrics at every reading of the clock, computed once
MockMetricsAt == MockMetricsUpTo(MaxClock)

\* buildMockDashboard(target) when Date.now() reads `now`; the random sha of
\* a mock commit is left out of the commit
buildMockDashboard(target, now) ==
    LET m == MockMetricsAt[now]
    IN  [ repo |-> [name |-> target, stars |-> m.totalStars,
                    forks |-> m.totalForks],
          metrics |-> m,
          recentCommits |-> [i \in 1..8 |-> Iso(0, now - (i - 1) * 6 * 3600000)],
          recentPRs |-> [i \in 1..5 |-> Iso((i - 1) * 2, now)],
          recentIssues |-> [i \in 1..6 |->
                              [updatedAt |-> Iso((i - 1) * 8, now),
                               isStale |-> i - 1 > 3]],
          fetchedAt |-> Iso(0, now),
          isMockData |-> TRUE ]

Endpoints == {"repo", "commits", "pulls", "issues", "contributors"}

Targets == {"vercel/next.js", "bingkahu/nexuspulse-os"}

\* 30 * 24 * 60 * 60 * 1000
STALE_THRESHOLD_MS ==
    Mul(Mul(Mul(Mul(FromInt(30), FromInt(24)), FromInt(60)), FromInt(60)),
        FromInt(1000))

\* the per_page of each request
PerPageCommits == 30
PerPagePulls == 20
PerPageIssues == 50
PerPageContributors == 1

\* how many entries of each list the dashboard shows
ShownCommits == 10
ShownPulls == 10
ShownIssues == 15

\* !token || token === "mock"
NoLiveSource(tok) == tok = NoToken \/ tok = "" \/ tok = "mock"

\* items of the payloads; an item of shape "bare" is an object without the
\* properties the client reads from it
Commit(date, shape) == [date |-> date, shape |-> shape]
Pull(mergedAt, shape) == [merged_at |-> mergedAt, shape |-> shape]
IssueItem(isPull, updatedAt, shape) ==
    [pull_request |-> isPull, updated_at |-> updatedAt, shape |-> shape]

\* JSON bodies
NoProps == [stargazers_count |-> Undefined, forks_count |-> Undefined]
JsonNull == [kind |-> "null", items |-> <<>>, props |-> NoProps]
JsonObject(props) == [kind |-> "object", items |-> <<>>, props |-> props]
JsonArray(items) == [kind |-> "array", items |-> items, props |-> NoProps]

\* a slice that keeps the whole list
TakeAll(s, n) == s

Take(s, n) == SubSeq(s, 1, IF Len(s) < n THEN Len(s) ELSE n)

\* the commits of a list dated at or after `since`
RECURSIVE CommitsSince(_, _)
CommitsSince(s, since) ==
    IF s = <<>> THEN <<>>
    ELSE (IF Ge(GetTime(Head(s).date), GetTime(since))
          THEN <<Head(s)>> ELSE <<>>) \o CommitsSince(Tail(s), since)

\* what GitHub answers to the request of an endpoint, by the parameters of
\* the request
Answer(e, since) ==
    CASE e = "repo" -> JsonObject(gh.repo)
      [] e = "commits" ->
             JsonArray(Take(CommitsSince(gh.commits, since), PerPageCommits))
      [] e = "pulls" -> JsonArray(Take(gh.pulls, PerPagePulls))
      [] e = "issues" -> JsonArray(Take(gh.issues, PerPageIssues))
      [] e = "contributors" ->
             JsonArray(Take(gh.contributors, PerPageContributors))

Pending == [state |-> "pending", body |-> JsonNull]
Resolved(body) == [state |-> "resolved", body |-> body]
Rejected == [state |-> "rejected", body |-> JsonNull]

\* how one call of ghFetch settles: a rejected fetch, a response that is not
\* ok and a body that is not JSON reject it; a body of another shape than
\* asked for is returned as it is
ghFetch(e, since) ==
    LET mode == gh.mode[e]
    IN  IF mode \in {"reject", "non2xx", "badJson"} THEN Rejected
        ELSE IF mode = "null" THEN Resolved(JsonNull)
        ELSE IF mode = "object" THEN Resolved(JsonObject(NoProps))
        ELSE Resolved(Answer(e, since))

\* pr.merged_at !== null: a missing property is not null
IsMerged(pr) == pr.shape = "bare" \/ pr.merged_at # <<>>

\* !i.pull_request
NotPull(i) == i.shape = "bare" \/ ~i.pull_request

RECURSIVE MergedOf(_)
MergedOf(s) ==
    IF s = <<>> THEN <<>>
    ELSE (IF IsMerged(Head(s)) THEN <<Head(s)>> ELSE <<>>) \o MergedOf(Tail(s))

RECURSIVE IssuesOf(_)
IssuesOf(s) ==
    IF s = <<>> THEN <<>>
    ELSE (IF NotPull(Head(s)) THEN <<Head(s)>> ELSE <<>>) \o IssuesOf(Tail(s))

\* staleness with the threshold itself counted as stale
IsStaleInclusive(updatedAt, now) ==
    Ge(Sub(DateNow(now), GetTime(updatedAt)), STALE_THRESHOLD_MS)

\* Date.now() - new Date(updatedAt).getTime() > STALE_THRESHOLD_MS; a bare
\* item has no date, and the comparison with NaN is false
IsStaleAt(updatedAt, now) ==
    Gt(Sub(DateNow(now), GetTime(updatedAt)), STALE_THRESHOLD_MS)

IsStaleItem(i, now) == i.shape # "bare" /\ IsStaleAt(i.updated_at, now)

RECURSIVE StaleCount(_, _)
StaleCount(s, now) ==
    IF s = <<>> THEN 0
    ELSE (IF NotPull(Head(s)) /\ IsStaleItem(Head(s), now) THEN 1 ELSE 0)
         + StaleCount(Tail(s), now)

AnyBare(s) == \E i \in 1..Len(s) : s[i].shape = "bare"

\* whether the statements after the await throw on these five payloads
Throws(body) ==
    \/ body["commits"].kind # "array"
    \/ AnyBare(Take(body["commits"].items, ShownCommits))
    \/ body["pulls"].kind # "array"
    \/ AnyBare(Take(MergedOf(body["pulls"].items), ShownPulls))
    \/ body["issues"].kind # "array"
    \/ AnyBare(Take(IssuesOf(body["issues"].items), ShownIssues))
    \/ body["repo"].kind = "null"
    \/ body["contributors"].kind = "null"

\* the dashboard built from five payloads that do not make the statements
\* throw; `mapped` is the reading of Date.now() while recentIssues is
\* mapped, `counted` the reading from the count of stale issues on; the
\* name, the description and the url of the repository are left out
LiveDashboard(target, body, mapped, counted) ==
    LET commitsData == body["commits"].items
        mergedPRs == MergedOf(body["pulls"].items)
        issues == IssuesOf(body["issues"].items)
        shown == Take(issues, ShownIssues)
        repoData == body["repo"].props
    IN  [ repo |-> [stars |-> repoData.stargazers_count,
                    forks |-> repoData.forks_count],
          metrics |->
            RawMetrics(Len(commitsData), Len(mergedPRs),
                       StaleCount(body["issues"].items, counted), Len(issues),
                       repoData.stargazers_count, repoData.forks_count,
                       IF body["contributors"].kind = "array"
                       THEN Num(Len(body["contributors"].items))
                       ELSE Undefined,
                       IF commitsData # <<>> THEN commitsData[1].date
                       ELSE Iso(0, counted)),
          recentCommits |-> [i \in 1..Len(Take(commitsData, ShownCommits)) |->
                               commitsData[i].date],
          recentPRs |-> [i \in 1..Len(Take(mergedPRs, ShownPulls)) |->
                           mergedPRs[i].merged_at[1]],
          recentIssues |-> [i \in 1..Len(shown) |->
                              [updatedAt |-> shown[i].updated_at,
                               isStale |-> IsStaleItem(shown[i], mapped)]],
          fetchedAt |-> Iso(0, counted),
          isMockData |-> FALSE ]

MaxItems == 2
MaxFetches == 3

SeqsUpTo(S, n) == UNION { [1..k -> S] : k \in 0..n }

NewestFirst(s) ==
    \A i, j \in 1..Len(s) : i < j => s[i].date.days <= s[j].date.days

CommitKinds == { Commit(Iso(d, 0), "full") : d \in {5, 30, 400} }
PullKinds ==
    { Pull(<<>>, "full"), Pull(<<Iso(5, 0)>>, "full"),
      Pull(<<Iso(400, 0)>>, "full") }
IssueKinds ==
    { IssueItem(TRUE, Iso(45, 0), "full") }
        \cup { IssueItem(FALSE, at, "full") :
                 at \in {Iso(29, 0), Iso(30, 1), Iso(30, 0), Iso(45, 0)} }

World(commits, pulls, issues, contributors, stars) ==
    [ mode |-> [e \in Endpoints |-> "ok"],
      repo |-> [stargazers_count |-> Num(stars), forks_count |-> Num(56)],
      commits |-> commits, pulls |-> pulls, issues |-> issues,
      contributors |-> contributors ]

DefaultWorld ==
    World(<<Commit(Iso(5, 0), "full")>>, <<Pull(<<Iso(5, 0)>>, "full")>>,
          <<IssueItem(FALSE, Iso(45, 0), "full")>>, <<"octocat">>, 1234)

\* repositories with every short history of commits, of closed pull
\* requests and of open issues, and with few or no contributors and stars
HistoryWorlds ==
    { [DefaultWorld EXCEPT !.commits = s] :
        s \in { c \in SeqsUpTo(CommitKinds, MaxItems) : NewestFirst(c) } }
    \cup { [DefaultWorld EXCEPT !.pulls = s] : s \in SeqsUpTo(PullKinds, MaxItems) }
    \cup { [DefaultWorld EXCEPT !.issues = s] :
             s \in SeqsUpTo(IssueKinds, MaxItems) }
    \cup { World(DefaultWorld.commits, DefaultWorld.pulls, DefaultWorld.issues,
                 c, n) : c \in {<<>>, <<"octocat", "hubot">>}, n \in {0, 1234} }

FaultModes == {"non2xx", "reject", "badJson", "hang", "null", "object"}

\* the default repository with one endpoint failing, or answering with
\* an item that lacks its properties
FaultWorlds ==
    { [DefaultWorld EXCEPT !.mode[e] = m] : e \in Endpoints, m \in FaultModes }
    \cup { [DefaultWorld EXCEPT !.commits = <<Commit(Iso(5, 0), "bare")>>],
           [DefaultWorld EXCEPT !.pulls = <<Pull(<<>>, "bare")>>],
           [DefaultWorld EXCEPT
              !.issues = <<IssueItem(FALSE, Iso(45, 0), "bare")>>] }

NoSourceTokens == {NoToken, "", "mock"}

EngineIdle ==
    /\ metrics = Plain(0, 0, 0, 0)
    /\ locals = NoLocals
    /\ report = NoReport
    /\ pc = "idle"
    /\ configs = STATE_CONFIGS
    /\ view = NoView
    /\ calls = NoCalls
    /\ util = NoUtil
    /\ UiIdle

FetchInit ==
    /\ \/ token = "ghp_live" /\ gh \in HistoryWorlds \cup FaultWorlds
       \/ token \in NoSourceTokens /\ gh = DefaultWorld
    /\ clock = 0
    /\ fetch = NoFetch
    /\ dash = <<>>
    /\ EngineIdle

\* fetchDashboardData can be called
CanStart == fetch.pc = "idle"

\* fetchDashboardData(target) up to its first return or await
StartFetch ==
    /\ CanStart
    /\ \E target \in Targets, now \in clock..MaxClock :
           /\ clock' = now
           /\ IF NoLiveSource(token)
              THEN /\ dash' = Append(dash, buildMockDashboard(target, now))
                   /\ fetch' = [fetch EXCEPT !.pc = "returned",
                                             !.target = <<target>>]
              ELSE /\ fetch' = [ pc |-> "awaiting", target |-> <<target>>,
                                 since |-> <<Iso(30, now)>>,
                                 replies |-> [e \in Endpoints |-> Pending],
                                 reads |-> <<>> ]
                   /\ UNCHANGED dash
    /\ UNCHANGED <<token, gh>>
    /\ UNCHANGED <<metrics, locals, report, pc, configs, pageVars, concVars,
                   utilVars, uiVars>>

\* a call of ghFetch that is pending settles once GitHub answers or the
\* connection fails; no timer and no signal is passed to fetch, so nothing
\* settles the call when neither happens
CanSettle(e) ==
    /\ fetch.pc = "awaiting"
    /\ fetch.replies[e].state = "pending"
    /\ gh.mode[e] # "hang"

\* one of the five calls of ghFetch settles
Respond(e) ==
    /\ CanSettle(e)
    /\ fetch' = [fetch EXCEPT !.replies[e] = ghFetch(e, fetch.since[1])]
    /\ UNCHANGED <<token, gh, clock, dash>>
    /\ UNCHANGED <<metrics, locals, report, pc, configs, pageVars, concVars,
                   utilVars, uiVars>>

AnyRejected == \E e \in Endpoints : fetch.replies[e].state = "rejected"
AllResolved == \A e \in Endpoints : fetch.replies[e].state = "resolved"

\* an await that is over as soon as one call has settled
CanResumeEarly ==
    fetch.pc = "awaiting"
        /\ \E e \in Endpoints : fetch.replies[e].state # "pending"

\* the await of Promise.all is over
CanResume == fetch.pc = "awaiting" /\ (AnyRejected \/ AllResolved)

\* fetchDashboardData after its await: Promise.all has rejected or has
\* resolved, and the function runs to its return
Resume ==
    /\ CanResume
    /\ \E mapped \in clock..MaxClock : \E counted \in mapped..MaxClock :
           LET body == [e \in Endpoints |-> fetch.replies[e].body]
           IN  /\ clock' = counted
               /\ IF AnyRejected \/ Throws(body)
                  THEN /\ dash' = Append(dash,
                              buildMockDashboard(fetch.target[1], counted))
                       /\ fetch' = [fetch EXCEPT !.pc = "returned",
                                                 !.reads = <<counted, counted>>]
                  ELSE /\ dash' = Append(dash,
                              LiveDashboard(fetch.target[1], body,
                                            mapped, counted))
                       /\ fetch' = [fetch EXCEPT !.pc = "returned",
                                                 !.reads = <<mapped, counted>>]
    /\ UNCHANGED <<token, gh>>
    /\ UNCHANGED <<metrics, locals, report, pc, configs, pageVars, concVars,
                   utilVars, uiVars>>

FetchNext == StartFetch \/ (\E e \in Endpoints : Respond(e)) \/ Resume

FetchSpec == FetchInit /\ [][FetchNext]_vars

\* the page is requested again
CallAgain ==
    /\ fetch.pc = "returned"
    /\ Len(dash) < MaxFetches
    /\ fetch' = NoFetch
    /\ UNCHANGED <<token, gh, clock, dash>>
    /\ UNCHANGED <<metrics, locals, report, pc, configs, pageVars, concVars,
                   utilVars, uiVars>>

RefetchInit ==
    /\ token \in NoSourceTokens
    /\ gh = DefaultWorld
    /\ clock = 0
    /\ fetch = NoFetch
    /\ dash = <<>>
    /\ EngineIdle

RefetchNext == StartFetch \/ CallAgain

RefetchSpec == RefetchInit /\ [][RefetchNext]_vars

(***************************************************************************)
(* Claims about fetchDashboardData                                         *)
(***************************************************************************)

\* the call of fetchDashboardData has returned, and what it returned
FetchReturned == fetch.pc = "returned"
LastDash == dash[Len(dash)]

\* a call that went to GitHub and returned what it built from the answers
ReturnedLive == FetchReturned /\ ~LastDash.isMockData

\* one of the five upstream calls returns a response that is not 2xx,
\* rejects, or delivers a malformed payload
UpstreamFault ==
    \/ \E e \in Endpoints :
           gh.mode[e] \in {"non2xx", "reject", "badJson", "null", "object"}
    \/ AnyBare(gh.commits) \/ AnyBare(gh.pulls) \/ AnyBare(gh.issues)

\* C13: whenever one of the five upstream calls returns a non-2xx response,
\* rejects or delivers a malformed payload, fetchDashboardData returns the
\* placeholder dashboard, with isMockData = true.
C13_FallsBackOnFault ==
    (~NoLiveSource(token) /\ FetchReturned /\ UpstreamFault) => LastDash.isMockData

\* the call of fetchDashboardData can take a step: each action of FetchNext
\* is enabled exactly when its guard holds
FetchCanStep == CanStart \/ (\E e \in Endpoints : CanSettle(e)) \/ CanResume

\* C14: the upstream calls are made under a timeout, so that a call of
\* fetchDashboardData completes even if an upstream call never responds:
\* until it has returned, the call can always take a further step.
C14_CompletesDespiteHang == FetchReturned \/ FetchCanStep

\* a count as the engine expects it: a number that is a non-negative integer
IsCount(x) == x.t = "number" /\ x.v \in Nat

\* a RawMetrics record is well-formed
WellFormed(m) ==
    /\ m.commits \in Nat /\ m.prsMerged \in Nat
    /\ m.staleIssues \in Nat /\ m.totalIssues \in Nat
    /\ IsCount(m.totalStars) /\ IsCount(m.totalForks) /\ IsCount(m.contributors)
    /\ m.staleIssues <= m.totalIssues

\* C15: every RawMetrics record fetchDashboardData returns, live or
\* placeholder, is well-formed: its seven counts are non-negative integers
\* and staleIssues <= totalIssues.
C15_MetricsWellFormed == FetchReturned => WellFormed(LastDash.metrics)

\* a date that lies in the 30 days before the call: `since` is the start of
\* the window, computed from Date.now() when the call began
InWindow(date, since) == Ge(GetTime(date), GetTime(since))

\* the commits and the merged pull requests of the repository that fall in
\* the window
CommitsInWindow(since) ==
    { i \in 1..Len(gh.commits) : InWindow(gh.commits[i].date, since) }
MergesInWindow(since) ==
    { i \in 1..Len(gh.pulls) :
        gh.pulls[i].merged_at # <<>> /\ InWindow(gh.pulls[i].merged_at[1], since) }

\* C16: on the live path metrics.commits counts only commits of the last 30
\* days and metrics.prsMerged counts only pull requests merged in the last
\* 30 days.
C16_TrailingWindowOnly ==
    ReturnedLive =>
        /\ LastDash.metrics.commits <= Cardinality(CommitsInWindow(fetch.since[1]))
        /\ LastDash.metrics.prsMerged <= Cardinality(MergesInWindow(fetch.since[1]))

\* the time from `date` to the reading `tick` of the clock exceeds 30 days,
\* in whole days and milliseconds
OlderThan30Days(date, tick) ==
    date.days > 30 \/ (date.days = 30 /\ tick > date.ms)

\* the open issues of the repository that are not pull requests
RealIssues == { i \in 1..Len(gh.issues) : ~gh.issues[i].pull_request }

\* C17: on the live path metrics.staleIssues counts exactly the issues that
\* are no pull requests and were last updated more than 30 days ago, each
\* entry of recentIssues carries isStale under that same condition, and
\* totalIssues counts exactly the issues that are no pull requests; each
\* condition is read at the time Date.now() is called for it.
C17_StaleBeyond30Days ==
    ReturnedLive =>
        LET m == LastDash.metrics
            mapped == fetch.reads[1]
            counted == fetch.reads[2]
        IN  /\ m.staleIssues =
                 Cardinality({ i \in RealIssues :
                     OlderThan30Days(gh.issues[i].updated_at, counted) })
            /\ m.totalIssues = Cardinality(RealIssues)
            /\ Len(LastDash.recentIssues) = Cardinality(RealIssues)
            /\ \A k \in 1..Len(LastDash.recentIssues) :
                   LastDash.recentIssues[k].isStale =
                       OlderThan30Days(LastDash.recentIssues[k].updatedAt, mapped)

\* a live dashboard of a repository whose issues endpoint delivers a pull
\* request and an issue updated exactly 30 days before the first reading of
\* the clock: the issue is not yet stale when recentIssues is mapped and is
\* stale when, a millisecond later, the stale issues are counted
C17_Witness ==
    /\ ReturnedLive
    /\ \E i \in 1..Len(gh.issues) : gh.issues[i].pull_request
    /\ LastDash.metrics.totalIssues = 1
    /\ LastDash.metrics.staleIssues = 1
    /\ LastDash.recentIssues[1].updatedAt = Iso(30, 0)
    /\ ~LastDash.recentIssues[1].isStale

\* C18: with no live data source configured fetchDashboardData makes no
\* upstream call and returns deterministic placeholder data: two fetches of
\* the same repository return the same RawMetrics.
C18_DeterministicPlaceholder ==
    NoLiveSource(token) =>
        /\ fetch.pc # "awaiting"
        /\ \A i, j \in 1..Len(dash) :
               dash[i].repo.name = dash[j].repo.name =>
                   dash[i].metrics = dash[j].metrics

\* what the five endpoints deliver to this call, whenever they are asked and
\* in whatever order they answer
Delivered == [e \in Endpoints |-> ghFetch(e, fetch.since[1])]
DeliveredBody == [e \in Endpoints |-> Delivered[e].body]

\* C23: whatever the order in which the five responses arrive, the result
\* is all-or-nothing: either all five calls succeeded and the whole record,
\* repo, metrics, recentCommits, recentPRs and recentIssues, is built from
\* what the endpoints deliver, with isMockData = false, or the whole record
\* is the placeholder dashboard, with isMockData = true.
C23_AllOrNothing ==
    (FetchReturned /\ ~NoLiveSource(token)) =>
        LET failed == \/ \E e \in Endpoints : Delivered[e].state = "rejected"
                      \/ Throws(DeliveredBody)
        IN  /\ LastDash.isMockData <=> failed
            /\ LastDash.isMockData =>
                   LastDash = buildMockDashboard(fetch.target[1], fetch.reads[2])
            /\ ~LastDash.isMockData =>
                   /\ AllResolved
                   /\ LastDash = LiveDashboard(fetch.target[1], DeliveredBody,
                                               fetch.reads[1], fetch.reads[2])

\* one call was rejected while another had resolved and a third was still
\* pending, and the placeholder was returned
C23_Witness ==
    /\ FetchReturned /\ ~NoLiveSource(token) /\ LastDash.isMockData
    /\ \E e \in Endpoints : fetch.replies[e].state = "rejected"
    /\ \E e \in Endpoints : fetch.replies[e].state = "resolved"
    /\ \E e \in Endpoints : fetch.replies[e].state = "pending"
    /\ Len(LastDash.recentCommits) = 8 /\ Len(LastDash.recentPRs) = 5

----------------------------------------------------------------------------
(* Claims about the table of states and about the report as a whole.       *)

\* the states from the lowest to the highest, with the particle count and
\* the animation the table is to hold for each
StateOrder == <<"dormant", "recovering", "stable", "thriving", "supernova">>
ParticlesInOrder == <<0, 4, 8, 16, 32>>
AnimationsInOrder == <<"idle", "breathe", "pulse", "orbit", "supernova">>

\* the position of a state in that order
RankOf(state) == CHOOSE i \in 1..5 : StateOrder[i] = state

\* C21: the table has exactly the five entries dormant, recovering, stable,
\* thriving, supernova; along that order the particle count is 0, 4, 8, 16,
\* 32, strictly increasing, and the animation is idle, breathe, pulse,
\* orbit, supernova; the configuration a report carries is the one of its
\* state, so a higher state never comes with a smaller particle count.
C21_TableInOrder ==
    /\ DOMAIN configs = { StateOrder[i] : i \in 1..5 }
    /\ Cardinality(DOMAIN configs) = 5
    /\ \A i \in 1..5 :
           /\ configs[StateOrder[i]].particleCount = ParticlesInOrder[i]
           /\ configs[StateOrder[i]].mascotAnimation = AnimationsInOrder[i]
    /\ \A i, j \in 1..5 :
           i < j => configs[StateOrder[i]].particleCount
                        < configs[StateOrder[j]].particleCount
    /\ Returned =>
           /\ report.stateConfig.particleCount
                  = ParticlesInOrder[RankOf(report.state)]
           /\ report.stateConfig.mascotAnimation
                  = AnimationsInOrder[RankOf(report.state)]

C21_Witness ==
    /\ Returned
    /\ report.state = "thriving"
    /\ report.stateConfig.particleCount = 16
    /\ report.stateConfig.mascotAnimation = "orbit"

----------------------------------------------------------------------------
(* The page on live data: app/page.tsx awaits fetchDashboardData and hands *)
(* data.metrics to computeVitality.  The repositories here have more       *)
(* commits and more merged pull requests than one page of the API holds.   *)

MaxLiveCommits == 35
MaxLivePulls == 25

\* n copies of an item
Repeat(item, n) == [i \in 1..n |-> item]

\* how many commits, merged pull requests and stale issues a repository has
LiveCommitCounts ==
    {0, 1, PerPageCommits - 1, PerPageCommits, PerPageCommits + 1, MaxLiveCommits}
LivePullCounts ==
    {0, PerPagePulls - 1, PerPagePulls, PerPagePulls + 1, MaxLivePulls}

\* repositories whose activity all lies in the last five days
LiveWorlds ==
    { World(Repeat(Commit(Iso(5, 0), "full"), c),
            Repeat(Pull(<<Iso(5, 0)>>, "full"), p),
            Repeat(IssueItem(FALSE, Iso(45, 0), "full"), s),
            <<"octocat">>, 1234) :
        c \in LiveCommitCounts, p \in LivePullCounts, s \in {0, 2} }

LiveInit ==
    /\ token = "ghp_live"
    /\ gh \in LiveWorlds
           \cup { [DefaultWorld EXCEPT !.mode["pulls"] = "non2xx"] }
    /\ clock = 0
    /\ fetch = NoFetch
    /\ dash = <<>>
    /\ EngineIdle

\* DashboardData after its await: const report = computeVitality(data.metrics)
ScoreFetched ==
    /\ fetch.pc = "returned"
    /\ pc = "idle"
    /\ metrics' = dash[Len(dash)].metrics
    /\ locals' = VitalityLocals(metrics')
    /\ report' = VitalityReport(locals')
    /\ pc' = "returned"
    /\ UNCHANGED <<configs, pageVars, concVars, utilVars, fetchVars, uiVars>>

LiveNext ==
    StartFetch \/ (\E e \in Endpoints : Respond(e)) \/ Resume \/ ScoreFetched

LiveSpec == LiveInit /\ [][LiveNext]_vars

\* C22: on the live path metrics.commits <= 30 and metrics.prsMerged <= 20,
\* so the score is at most 21, the state of the report is dormant or
\* recovering and the trend is never falling.
C22_LiveScoreCapped ==
    (Returned /\ ~dash[Len(dash)].isMockData) =>
        /\ metrics.commits <= 30
        /\ metrics.prsMerged <= 20
        /\ Le(locals.score, FromInt(21))
        /\ Le(report.score, FromInt(21))
        /\ report.state \in {"dormant", "recovering"}
        /\ report.trend # "falling"

\* a repository with 35 commits and 25 merged pull requests in the window
\* and no stale issue: the page scores 30 commits and 20 pull requests
C22_Witness ==
    /\ Returned /\ ~dash[Len(dash)].isMockData
    /\ Len(gh.commits) = MaxLiveCommits /\ Len(gh.pulls) = MaxLivePulls
    /\ metrics.commits = 30 /\ metrics.prsMerged = 20
    /\ Eq(report.score, FromInt(21))
    /\ report.state = "recovering"

\* by how much a count is raised
Raises == {1, 10}

\* the report `hi` is nowhere below the report `lo`: in score, in
\* normalizedScore and in the position of the state
NotBelow(hi, lo) ==
    /\ Ge(hi.score, lo.score)
    /\ Ge(hi.normalizedScore, lo.normalizedScore)
    /\ RankOf(hi.state) >= RankOf(lo.state)

\* C24: with the other fields fixed, raising commits or prsMerged never
\* lowers score, normalizedScore or the position of the state, and raising
\* staleIssues never raises any of them.
C24_Monotone ==
    Returned =>
        \A d \in Raises :
            /\ NotBelow(computeVitality([metrics EXCEPT !.commits = @ + d]),
                        report)
            /\ NotBelow(computeVitality([metrics EXCEPT !.prsMerged = @ + d]),
                        report)
            /\ NotBelow(report,
                        computeVitality([metrics EXCEPT !.staleIssues = @ + d]))

\* ten more commits lift the report from recovering to stable, and ten more
\* stale issues lower its score
C24_Witness ==
    /\ Returned
    /\ report.state = "recovering"
    /\ computeVitality([metrics EXCEPT !.commits = @ + 10]).state = "stable"
    /\ Lt(computeVitality([metrics EXCEPT !.staleIssues = @ + 10]).score,
          report.score)

\* C25: healthPercentage never exceeds the unrounded normalizedScore rounded
\* to the nearest integer; whenever the state is dormant, normalizedScore
\* is 0 and healthPercentage is 0.
C25_HealthWithinNormalized ==
    Returned =>
        /\ Le(report.healthPercentage, MathRound(locals.normalizedScore))
        /\ report.state = "dormant" =>
               /\ Eq(locals.normalizedScore, FromInt(0))
               /\ Eq(report.normalizedScore, FromInt(0))
               /\ Eq(report.healthPercentage, FromInt(0))

\* stale issues take the health strictly below the rounded normalizedScore
C25_Witness ==
    /\ Returned
    /\ metrics.staleIssues > 0
    /\ Gt(report.healthPercentage, FromInt(0))
    /\ Lt(report.healthPercentage, MathRound(locals.normalizedScore))

\* C26: applying the threshold table to the score a report shows gives the
\* state the report carries.
C26_StateAgreesWithShownScore ==
    Returned => resolveState(report.score) = report.state

----------------------------------------------------------------------------
(* RepoSearchBar of components/DashboardClient.tsx.  A text is a sequence  *)
(* of pieces: a letter, a slash, a blank, or the host name written in one  *)
(* of two letter cases.                                                    *)

Letters == {"a", "b"}
Hosts == {"github.com", "GitHub.com"}

\* String.prototype.trim
RECURSIVE TrimStart(_)
TrimStart(t) ==
    IF t # <<>> /\ Head(t) = " " THEN TrimStart(Tail(t)) ELSE t
RECURSIVE TrimEnd(_)
TrimEnd(t) ==
    IF t # <<>> /\ t[Len(t)] = " " THEN TrimEnd(SubSeq(t, 1, Len(t) - 1)) ELSE t
Trim(t) == TrimEnd(TrimStart(t))

\* replace(/^github\.com\//i, "")
StripHost(t) ==
    IF Len(t) >= 2 /\ t[1] \in Hosts /\ t[2] = "/" THEN SubSeq(t, 3, Len(t))
    ELSE t

\* split("/"): the pieces between the slashes, empty ones included
RECURSIVE Split(_, _)
Split(t, cur) ==
    IF t = <<>> THEN <<cur>>
    ELSE IF Head(t) = "/" THEN <<cur>> \o Split(Tail(t), <<>>)
    ELSE Split(Tail(t), Append(cur, Head(t)))

\* a filter that keeps every part
KeepAll(parts) == parts

\* filter(Boolean): the empty string is the only string that is falsy
RECURSIVE FilterBoolean(_)
FilterBoolean(parts) ==
    IF parts = <<>> THEN <<>>
    ELSE (IF Head(parts) # <<>> THEN <<Head(parts)>> ELSE <<>>)
         \o FilterBoolean(Tail(parts))

\* join("/")
RECURSIVE Join(_)
Join(parts) ==
    IF parts = <<>> THEN <<>>
    ELSE IF Len(parts) = 1 THEN parts[1]
    ELSE parts[1] \o <<"/">> \o Join(Tail(parts))

\* encodeURIComponent: letters and dots are kept, a slash and a blank are
\* percent-encoded
encodeURIComponent(t) ==
    [i \in 1..Len(t) |->
        IF t[i] = "/" THEN "%2F" ELSE IF t[i] = " " THEN "%20" ELSE t[i]]

\* `/${encodeURIComponent(owner)}/${encodeURIComponent(repo)}`
RouteOf(owner, repo) ==
    <<"/">> \o encodeURIComponent(owner) \o <<"/">> \o encodeURIComponent(repo)

\* `${currentOwner}/${currentRepo}`
SlugOf(owner, repo) == <<owner, "/", repo>>

FormatError == <<"Use format: owner/repo">>
RequiredError == <<"Both owner and repo are required.">>

\* the instance after the events of handleSubmit, by the text it reads
SubmitOutcome(b) ==
    LET trimmed == StripHost(Trim(b.inputValue))
        parts == FilterBoolean(Split(trimmed, <<>>))
    IN  IF Len(parts) < 2
        THEN [b EXCEPT !.error = FormatError, !.isFocused = TRUE]
        ELSE LET owner == parts[1]
                 repo == Join(Tail(parts))
             IN  IF owner = <<>> \/ repo = <<>>
                 THEN [b EXCEPT !.error = RequiredError]
                 ELSE [b EXCEPT !.error = <<>>,
                                !.isNavigating = TRUE,
                                !.navigated = @ + 1,
                                !.pushed = Append(@, RouteOf(owner, repo))]

MaxText == 3
MaxPushes == 2

\* the texts a user types or pastes
TypedTexts ==
    SeqsUpTo({"a", "/", " "}, MaxText)
        \cup { <<h, "/">> \o t :
                 h \in Hosts, t \in {<<>>, <<"a">>, <<"a", "/">>, <<"a", "/", "b">>} }
        \cup { <<"a", "/", "b", "/", "a">>, <<"github.com">>,
               <<" ", "github.com", "/", "a", "/", "b", " ">>,
               <<"a", "/", "github.com", "/", "b">>, <<"a", " ", "/", "b">> }

\* the repositories the route can name
BarProps == { <<o, "a">> : o \in Letters }

\* the instance as the useState calls of the first render make it
BarInit ==
    /\ \E p \in BarProps :
           bar = [ currentOwner |-> p[1], currentRepo |-> p[2],
                   inputValue |-> SlugOf(p[1], p[2]), isFocused |-> FALSE,
                   error |-> <<>>, isNavigating |-> FALSE,
                   navigated |-> 0, pushed |-> <<>> ]
    /\ timeline = NoTimeline
    /\ token = NoToken /\ gh = NoGitHub /\ clock = 0 /\ fetch = NoFetch
    /\ dash = <<>>
    /\ metrics = Plain(0, 0, 0, 0) /\ locals = NoLocals /\ report = NoReport
    /\ pc = "idle" /\ configs = STATE_CONFIGS
    /\ view = NoView /\ calls = NoCalls /\ util = NoUtil

\* an instance that resets isNavigating when the text is edited
ChangeOutcomeReset(b, text) ==
    [b EXCEPT !.inputValue = text, !.error = <<>>, !.isNavigating = FALSE]

\* onChange: setInputValue(e.target.value); setError(null)
ChangeOutcome(b, text) == [b EXCEPT !.inputValue = text, !.error = <<>>]

otherBarVars ==
    <<metrics, locals, report, pc, configs, pageVars, concVars, utilVars,
      fetchVars, timeline>>

OnChange ==
    /\ \E text \in TypedTexts : bar' = ChangeOutcome(bar, text)
    /\ UNCHANGED otherBarVars

OnFocus ==
    /\ bar' = [bar EXCEPT !.isFocused = TRUE]
    /\ UNCHANGED otherBarVars

OnBlur ==
    /\ bar' = [bar EXCEPT !.isFocused = FALSE]
    /\ UNCHANGED otherBarVars

\* the form is submitted: handleSubmit runs to its end
HandleSubmit ==
    /\ Len(bar.pushed) < MaxPushes
    /\ bar' = SubmitOutcome(bar)
    /\ UNCHANGED otherBarVars

\* the parent renders the instance with another currentOwner/currentRepo,
\* and the effect runs
PropsChange ==
    /\ \E p \in BarProps :
           /\ p # <<bar.currentOwner, bar.currentRepo>>
           /\ bar' = [bar EXCEPT !.currentOwner = p[1], !.currentRepo = p[2],
                                 !.inputValue = SlugOf(p[1], p[2])]
    /\ UNCHANGED otherBarVars

BarNext == OnChange \/ OnFocus \/ OnBlur \/ HandleSubmit \/ PropsChange

BarSpec == BarInit /\ [][BarNext]_vars

\* how many non-empty parts the slashes cut a text into: a part begins at a
\* piece that is no slash and stands first or right after a slash
NonEmptyParts(t) ==
    Cardinality({ i \in 1..Len(t) : t[i] # "/" /\ (i = 1 \/ t[i - 1] = "/") })

\* the text of the input after trimming and stripping a leading host name
Normalised(b) == StripHost(Trim(b.inputValue))

\* the route /owner/repo of a text: owner is its first part and repo the
\* other parts, joined by slashes
RouteOfText(t) ==
    LET parts == FilterBoolean(Split(t, <<>>))
    IN  RouteOf(parts[1], Join(Tail(parts)))

\* C27: a submit of a text with fewer than two non-empty parts sets the
\* error message, does not set isNavigating and calls neither onNavigate
\* nor router.push; a submit of a text with two or more parts clears the
\* error, sets isNavigating, calls onNavigate once and pushes exactly one
\* route, /owner/repo; any edit of the input clears the error.
C27_NavigatesOnValidInputOnly ==
    [][ /\ HandleSubmit =>
               IF NonEmptyParts(Normalised(bar)) < 2
               THEN /\ bar'.error = FormatError
                    /\ bar'.isNavigating = bar.isNavigating
                    /\ bar'.navigated = bar.navigated
                    /\ bar'.pushed = bar.pushed
               ELSE /\ bar'.error = <<>>
                    /\ bar'.isNavigating
                    /\ bar'.navigated = bar.navigated + 1
                    /\ bar'.pushed =
                           Append(bar.pushed, RouteOfText(Normalised(bar)))
        /\ OnChange => bar'.error = <<>>
      ]_vars

\* a submit of "a/b/a" has pushed /a/b%2Fa, and a later submit of a text
\* with one part has set the error
C27_Witness ==
    /\ bar.pushed = << <<"/", "a", "/", "b", "%2F", "a">> >>
    /\ bar.navigated = 1
    /\ bar.error = FormatError
    /\ NonEmptyParts(Normalised(bar)) = 1

\* C28: isNavigating starts false, and once a submit has set it to true no
\* later event of the instance sets it back to false.
C28_NavigatingStaysSet ==
    /\ ~bar.isNavigating
    /\ [][bar.isNavigating => bar'.isNavigating]_vars

\* after two successful submits the input was emptied and left, the props
\* changed, and isNavigating is still set
C28_Witness ==
    /\ bar.isNavigating
    /\ Len(bar.pushed) = 2
    /\ bar.inputValue = <<>>
    /\ ~bar.isFocused
    /\ bar.currentOwner = "b"

----------------------------------------------------------------------------
(* buildTimeline of components/HistoryScroll.tsx.  An item is known by its *)
(* place in the list it is passed in; a date is <<>> where the code reads  *)
(* "" (a pull request whose mergedAt is null) and <<iso>> otherwise.        *)

ShownCommitEvents == 8
ShownPrEvents == 5
ShownIssueEvents == 5

TimelineEvent(kind, id, date) == [kind |-> kind, id |-> id, date |-> date]

\* the array before it is sorted: the three slices, mapped and spread
EventsOf(commits, prs, issues) ==
    [i \in 1..Len(Take(commits, ShownCommitEvents)) |->
         TimelineEvent("commit", i, commits[i])]
    \o [i \in 1..Len(Take(prs, ShownPrEvents)) |->
         TimelineEvent("pr", i, prs[i])]
    \o [i \in 1..Len(Take(issues, ShownIssueEvents)) |->
         TimelineEvent("issue", i, issues[i])]

\* new Date(date).getTime(): NaN for the empty string
TimeOf(date) == IF date = <<>> THEN NaN ELSE GetTime(date[1])

\* a comparator that puts the older event first
CompareEventsAscending(a, b) == Sub(TimeOf(a.date), TimeOf(b.date))

\* the comparator: new Date(dateB).getTime() - new Date(dateA).getTime()
CompareEvents(a, b) == Sub(TimeOf(b.date), TimeOf(a.date))

\* Array.prototype.sort is stable: an event goes before the first event the
\* comparator puts after it, and behind every event it is equal to
RECURSIVE InsertEvent(_, _)
InsertEvent(sorted, x) ==
    IF sorted = <<>> THEN <<x>>
    ELSE IF Gt(CompareEvents(Head(sorted), x), FromInt(0)) THEN <<x>> \o sorted
    ELSE <<Head(sorted)>> \o InsertEvent(Tail(sorted), x)

RECURSIVE SortEvents(_)
SortEvents(events) ==
    IF events = <<>> THEN <<>>
    ELSE InsertEvent(SortEvents(SubSeq(events, 1, Len(events) - 1)),
                     events[Len(events)])

\* what sort can return: with a comparator that returns NaN for some pair
\* the order is implementation-defined, and any order of the events can
\* come out
SortOutcomes(events) ==
    IF \A i \in 1..Len(events) : events[i].date # <<>>
    THEN { SortEvents(events) }
    ELSE { [i \in 1..Len(events) |-> events[f[i]]] :
             f \in Permutations(1..Len(events)) }

buildTimeline(commits, prs, issues) ==
    SortOutcomes(EventsOf(commits, prs, issues))

MaxTimelineCommits == 9
MaxTimelinePrs == 6
MaxTimelineIssues == 6

\* the date of the k-th item of a list: dates fall up to six days back, in
\* an order that is not sorted, and several items share a date
DateAt(k, step, ms) == <<Iso((k * step) % 7, ms)>>

\* lists of dates with every length around the slices of buildTimeline
TimelineInputs ==
    { [ commits |-> [k \in 1..c |-> DateAt(k, step, 0)],
        prs |-> [k \in 1..p |-> DateAt(k, step + 1, 1)],
        issues |-> [k \in 1..i |-> DateAt(k, step + 2, 0)] ] :
        c \in {0, 1, ShownCommitEvents, MaxTimelineCommits},
        p \in {0, ShownPrEvents, MaxTimelinePrs},
        i \in {0, ShownIssueEvents, MaxTimelineIssues},
        step \in 1..3 }

\* short lists with a pull request whose mergedAt is null
NullDateInputs ==
    { [ commits |-> [k \in 1..c |-> DateAt(k, 3, 0)],
        prs |-> prs,
        issues |-> [k \in 1..i |-> DateAt(k, 2, 0)] ] :
        c \in 0..2, i \in 0..1,
        prs \in { <<<<>>>>, <<DateAt(1, 1, 0), <<>>>> } }

TimelineInit ==
    /\ timeline \in { [pc |-> "call", input |-> x, out |-> <<>>] :
                        x \in TimelineInputs \cup NullDateInputs }
    /\ bar = NoBar
    /\ token = NoToken /\ gh = NoGitHub /\ clock = 0 /\ fetch = NoFetch
    /\ dash = <<>>
    /\ metrics = Plain(0, 0, 0, 0) /\ locals = NoLocals /\ report = NoReport
    /\ pc = "idle" /\ configs = STATE_CONFIGS
    /\ view = NoView /\ calls = NoCalls /\ util = NoUtil

\* const events = buildTimeline(commits, prs, issues)
BuildTimeline ==
    /\ timeline.pc = "call"
    /\ \E out \in buildTimeline(timeline.input.commits, timeline.input.prs,
                                timeline.input.issues) :
           timeline' = [timeline EXCEPT !.pc = "returned", !.out = out]
    /\ UNCHANGED <<metrics, locals, report, pc, configs, pageVars, concVars,
                   utilVars, fetchVars, bar>>

TimelineNext == BuildTimeline

TimelineSpec == TimelineInit /\ [][TimelineNext]_vars

Smaller(a, b) == IF a < b THEN a ELSE b

\* the event `a` is dated no earlier than the event `b`, in days and
\* milliseconds
NoEarlier(a, b) ==
    \/ a.date[1].days < b.date[1].days
    \/ a.date[1].days = b.date[1].days /\ a.date[1].ms >= b.date[1].ms

\* the list an event of a kind is taken from
ListOf(input, kind) ==
    CASE kind = "commit" -> input.commits
      [] kind = "pr" -> input.prs
      [] kind = "issue" -> input.issues

\* C29: buildTimeline returns exactly min(8, #commits) + min(5, #prs) +
\* min(5, #issues) events, at most 18; every event is an item of the input
\* with its date and no item appears twice; and, provided every event has a
\* valid date, the events are ordered by date, non-increasing.
C29_TimelineMergedAndSorted ==
    timeline.pc = "returned" =>
        LET input == timeline.input
            out == timeline.out
        IN  /\ Len(out) = Smaller(8, Len(input.commits))
                            + Smaller(5, Len(input.prs))
                            + Smaller(5, Len(input.issues))
            /\ Len(out) <= 18
            /\ \A j \in 1..Len(out) :
                   /\ out[j].id \in 1..Len(ListOf(input, out[j].kind))
                   /\ out[j].date = ListOf(input, out[j].kind)[out[j].id]
            /\ \A j, k \in 1..Len(out) :
                   j # k => <<out[j].kind, out[j].id>> # <<out[k].kind, out[k].id>>
            /\ (\A j \in 1..Len(out) : out[j].date # <<>>) =>
                   \A j, k \in 1..Len(out) : j < k => NoEarlier(out[j], out[k])

\* nine commits, six pull requests and six issues give 18 events; the sort
\* has moved the seventh commit to the front and a pull request behind it
C29_Witness ==
    /\ timeline.pc = "returned"
    /\ Len(timeline.input.commits) = 9
    /\ Len(timeline.input.prs) = 6
    /\ Len(timeline.input.issues) = 6
    /\ Len(timeline.out) = 18
    /\ timeline.out[1].kind = "commit" /\ timeline.out[1].id = 7
    /\ timeline.out[2].kind = "pr"

====
